---- MODULE Spec2Model ----
(***************************************************************************)
(* Rule-Bot: the data catalog manager (src/src/data_manager.py), the GeoIP *)
(* service (src/src/services/geoip_service.py), the text extractor         *)
(* (src/src/utils/text_extractor.py), the classifier of spec.md 4.6 and    *)
(* the group entry (src/src/handlers/group_handler.py), the configuration  *)
(* (src/src/config.py) and the DoH pools of spec.md 4.2 as state machines.  *)
(*                                                                         *)
(* Spec         the catalog manager: startup, the refresh threads, the     *)
(*              files on disk, the in-memory GeoSite catalog and the GeoIP *)
(*              service built on them.                                     *)
(* FairSpec     Spec with the fairness of the timer and of a refresh that  *)
(*              is running.                                                *)
(* ReadersSpec  Spec together with classify operations that read the       *)
(*              catalogs while the manager refreshes them.                 *)
(* GroupSpec    the group entry: one mentioning message after the other.   *)
(* GeositeSpec  is_domain_in_geosite over every small catalog and query.   *)
(* CnSpec       the CN IPv4 ranges: every small file and every address.    *)
(* LookupSpec   get_country_code and is_domain_in_geosite with and without *)
(*              their data, over every kind of input.                      *)
(* DomainSpec   the registered domain of a domain and of a text.           *)
(* VerdictSpec  the classifier from normalization to its decision.         *)
(* ConfigSpec   DATA_UPDATE_INTERVAL as parsed and as slept by the         *)
(*              scheduler.                                                 *)
(* LimitSpec    several group requests of the same users pending at once.  *)
(* SwapSpec     the GeoSite swap and the reads of a lookup, statement by   *)
(*              statement, with _data_lock.                                *)
(* DohSpec      one resolution of a DoH pool (spec.md 4.2).                *)
(***************************************************************************)
EXTENDS Integers, Sequences, FiniteSets, TLC

\* ------------------------------------------------------------ bounds
\* Versions the upstream mirrors publish while the program runs.
MaxVersion == 2
\* Chunks of one streamed download (iter_chunked): a file is complete when
\* all of them are written.
NumChunks == 2
\* Threads that call _update_data_sync (run_scheduler's thread is one; the
\* try-lock exists for any further caller).
NumTriggers == 2
\* Concurrent classify operations.
NumClassify == 1

\* ------------------------------------------------------------ constants
\* len(Config.GEOIP_URLS)
NumGeoipUrls == 3
\* Config.GEOSITE_URL is a single URL
NumGeositeUrls == 1

Main == 0
Triggers == 1..NumTriggers
Workers == {Main} \cup Triggers
Classifiers == 1..NumClassify
NoThread == -1

Responses == {"ok", "non200", "neterr"}

\* A file's (or a loaded catalog's) content: the upstream version it was
\* fetched at and how many of its chunks are there.  ver = 0: no file.
Absent == [ver |-> 0, chunks |-> 0]
Exists(f) == f.ver # 0
IsComplete(f) == f.ver # 0 /\ f.chunks = NumChunks
Truncated(v) == [ver |-> v, chunks |-> 0]

\* DataManager.__init__: empty set and lists
EmptyCatalog == [domains |-> Absent, keywords |-> Absent,
                 regex |-> Absent, includes |-> Absent]
\* The catalog _load_geosite_data builds from a file
ParsedCatalog(f) == [domains |-> f, keywords |-> f, regex |-> f, includes |-> f]

\* What an earlier run of the program can have left of a file: nothing, a
\* whole file, or one whose download broke off.
LeftOnDisk == {Absent, [ver |-> 1, chunks |-> NumChunks],
               [ver |-> 1, chunks |-> NumChunks - 1]}

\* What a run (the startup, or one refresh) has done so far.
\*   geoip, geosite  "none", "ok", "failed" (no 200 answer), "aborted" (the
\*                   stream broke while the file was written)
\*   mirrorOk        some GEOIP_URLS candidate would have answered 200
\*   load            "none", "ok", "skipped" (no file), "failed"
\*   atBegin         the catalog in memory when the run began
NoRun == [geoip |-> "none", mirrorOk |-> FALSE, geosite |-> "none",
          load |-> "none", atBegin |-> EmptyCatalog]

VARIABLES
    upstream,         \* the version the mirrors serve now
    geoipUrlDefined,  \* whether the config object carries GEOIP_URL
    geoipFile,        \* <data_dir>/geoip/Country-without-asn.mmdb
    geositeFile,      \* <data_dir>/geosite/direct-list.txt
    catalog,          \* geosite_domains, _keywords, _regex_patterns, _includes
    updateLock,       \* _update_lock: its holder, or NoThread
    pc,               \* each worker's position
    need,             \* _download_initial_data: need_geoip, need_geosite
    run,              \* what each worker's current (last) run did
    lastTrigger,      \* "skipped" once a trigger has found the lock taken
    lastEnded,        \* how the last refresh that ended went
    service,          \* the GeoIPService: built, reader, cn index
    clsPc,            \* each classify operation's position
    clsSaw,           \* the catalogs each classify operation has read
    allowedGroups,    \* Config.ALLOWED_GROUP_IDS
    botUsername,      \* GroupHandler._bot_username, "" until fetched
    req,              \* the group message being handled
    userAdds,         \* the adds recorded for each user in the current hour
    chk,              \* one domain check: its signals and its verdict
    site,             \* one GeoSite lookup: the catalog, the query, the answer
    geo,              \* one GeoIP service: its CN ranges, its last lookup
    ext,              \* one domain extraction: the input and what came out
    cfg,              \* DATA_UPDATE_INTERVAL: the variable, the parsed value
    doh,              \* one pool resolution: its endpoints and its result
    flight,           \* the group requests of one user: where each one is
    mem               \* the GeoSite references, _data_lock, a loader, the lookups

vars == <<upstream, geoipUrlDefined, geoipFile, geositeFile, catalog,
          updateLock, pc, need, run, lastTrigger, lastEnded, service, clsPc,
          clsSaw, allowedGroups, botUsername, req, userAdds, chk, site, geo,
          ext, cfg, doh, flight, mem>>

mgrVars == <<geoipFile, geositeFile, catalog, updateLock, pc, need, run,
             lastTrigger, lastEnded>>
clsVars == <<clsPc, clsSaw>>
grpVars == <<allowedGroups, botUsername, req, userAdds>>
fnVars == <<chk, site, geo, ext, cfg, doh, flight, mem>>
nonMgrVars == <<clsVars, grpVars, fnVars>>

\* ------------------------------------------------------------ group entry
\* Group chats a message can come from
NumChats == 2
\* Users who write in them
NumUsers == 1
\* HandlerManager.MAX_ADDS_PER_HOUR
MaxAddsPerHour == 2

ChatIds == 1..NumChats
Users == 1..NumUsers

\* A domain is its sequence of labels; None is the empty sequence.
None == << >>

\* A text is a sequence of tokens, a token a sequence of labels: a word or
\* a mention is a single label.
BotName == "rulebot"
Word == <<"hello">>
Dcn == <<"www", "example", "cn">>
Dcomcn == <<"shop", "example", "com", "cn">>
Dcom == <<"sub", "foo", "com">>
Dbare == <<"bar", "net">>
MessageTexts == { << <<"@rulebot">> >>,
                  << <<"@rulebot">>, Word >>,
                  << <<"@rulebot">>, Dcn >>,
                  << <<"@RuleBot">>, Dcomcn >>,
                  << <<"@rulebot">>, Dcom >>,
                  << Word, Dbare, <<"@RULEBOT">> >>,
                  << <<"@alice">>, Dcom >>,
                  << <<"@rulebot_fan">>, Dcom >>,
                  << Dcom >> }
ReplyTexts == { << >>, << Word >>, << Dcn >>, << Dcom >> }

NoReq == [pc |-> "idle", chatType |-> "group", chatId |-> 1, user |-> 1,
          text |-> << >>, hasReply |-> FALSE, replyText |-> << >>,
          domain |-> None, outcome |-> "none",
          limitChecked |-> FALSE, checkCalled |-> FALSE, recorded |-> FALSE]

\* loadError: _load_data's except clause has run
NoService == [built |-> FALSE, reader |-> Absent, cn |-> 0, loadError |-> FALSE]
\* What one is_domain_in_geosite call reads under _data_lock
NoSnapshot == [domains |-> Absent, keywords |-> Absent, regex |-> Absent]
NoSaw == [atStart |-> NoSnapshot, first |-> NoSnapshot,
          second |-> NoSnapshot, reader |-> Absent, cn |-> 0]

\* The data directory as an earlier run left it; nothing loaded yet.
ManagerInit ==
    /\ upstream = 1
    /\ geoipUrlDefined \in BOOLEAN
    /\ geoipFile \in LeftOnDisk
    /\ geositeFile \in LeftOnDisk
    /\ catalog = EmptyCatalog
    /\ updateLock = NoThread
    /\ pc = [w \in Workers |-> IF w = Main THEN "start" ELSE "unstarted"]
    /\ need = [geoip |-> FALSE, geosite |-> FALSE]
    /\ run = [w \in Workers |-> NoRun]
    /\ lastTrigger = [t \in Triggers |-> "none"]
    /\ lastEnded = "none"
    /\ service = NoService
    /\ clsPc = [c \in Classifiers |-> "idle"]
    /\ clsSaw = [c \in Classifiers |-> NoSaw]

\* The group entry before its first message, for a given whitelist.
GroupIdle(ids) ==
    /\ allowedGroups = ids
    /\ botUsername = ""
    /\ req = NoReq
    /\ userAdds = [u \in Users |-> 0]

\* Group requests of one user that may be under way at the same time
NumRequests == 3
Requests == 1..NumRequests
NoFlight == [pc |-> "idle", outcome |-> "none"]

\* Loads of the GeoSite file that one run of the program makes
MaxLoads == 3
\* Who holds _data_lock
NoHolder == [kind |-> "none", c |-> 0]
\* DataManager.__init__: the empty collections (generation 0), the lock free
NoLoads == [domains |-> 0, keywords |-> 0, regex |-> 0, includes |-> 0,
            lock |-> NoHolder,
            loader |-> [pc |-> "idle", gen |-> 0],
            lookup |-> [c \in Classifiers |->
                          [pc |-> "idle", domains |-> 0, keywords |-> 0,
                           regex |-> 0]]]

\* No check, lookup or extraction made yet.
FnIdle ==
    /\ chk = [pc |-> "idle"]
    /\ site = [pc |-> "idle"]
    /\ geo = [pc |-> "idle"]
    /\ ext = [pc |-> "idle"]
    /\ cfg = [pc |-> "idle"]
    /\ doh = [pc |-> "idle"]
    /\ flight = [r \in Requests |-> NoFlight]
    /\ mem = NoLoads

Init == ManagerInit /\ GroupIdle({}) /\ FnIdle

\* The mirrors publish a new version.
Publish ==
    /\ upstream < MaxVersion
    /\ upstream' = upstream + 1
    /\ UNCHANGED <<geoipUrlDefined, mgrVars, service, nonMgrVars>>


\* ------------------------------------------------------------ helpers
\* A faulty variant: initialize() logging the exception without re-raising it
RaisedSwallowed(w) == IF w = Main THEN "start_sched" ELSE "finish"

\* Where an exception takes a worker: initialize() re-raises (lines 72-74,
\* 100-102); _update_data logs it and returns (lines 290-291).
Raised(w) == IF w = Main THEN "init_failed" ELSE "finish"

\* After _download_geoip: startup skips the GeoSite download when the file
\* is there and fresh (lines 93-95); a refresh always downloads (line 283).
AfterGeoip(w) == IF w = Main /\ ~need.geosite THEN "load" ELSE "dl_geosite"

\* After _load_geosite_data: initialize() goes on to start the scheduler
\* (line 68); _update_data is done (line 288).
AfterLoad(w) == IF w = Main THEN "start_sched" ELSE "finish"

Failed(r) ==
    \/ r.geoip \in {"failed", "aborted"}
    \/ r.geosite \in {"failed", "aborted"}
    \/ r.load = "failed"

\* ------------------------------------------------------------ startup
\* _download_initial_data, lines 80-95: a file is downloaded when it is
\* missing or older than DATA_UPDATE_INTERVAL (_is_file_outdated).
InitStart ==
    /\ pc[Main] = "start"
    /\ \E oldGeoip, oldGeosite \in BOOLEAN :
         LET ng == ~Exists(geoipFile) \/ oldGeoip
             ns == ~Exists(geositeFile) \/ oldGeosite
         IN /\ need' = [geoip |-> ng, geosite |-> ns]
            /\ pc' = [pc EXCEPT ![Main] = IF ng THEN "dl_geoip"
                                          ELSE IF ns THEN "dl_geosite"
                                          ELSE "load"]
    /\ run' = [run EXCEPT ![Main] = [NoRun EXCEPT !.atBegin = catalog]]
    /\ UNCHANGED <<upstream, geoipUrlDefined, geoipFile, geositeFile, catalog,
                   updateLock, lastTrigger, lastEnded, service, nonMgrVars>>

\* _start_scheduled_updates: the scheduler thread starts, asleep.
\* _download_initial_data has returned and its locals are gone.
StartScheduledUpdates ==
    /\ pc[Main] = "start_sched"
    /\ pc' = [w \in Workers |-> IF w = Main THEN "ready" ELSE "sleep"]
    /\ need' = [geoip |-> FALSE, geosite |-> FALSE]
    /\ run' = [run EXCEPT ![Main] = NoRun]
    /\ UNCHANGED <<upstream, geoipUrlDefined, geoipFile, geositeFile, catalog,
                   updateLock, lastTrigger, lastEnded, service, nonMgrVars>>

\* ------------------------------------------------------------ downloads
\* The status _download_geoip sees.  It requests self.config.GEOIP_URL and
\* nothing else: Config sets GEOIP_URLS and no GEOIP_URL, so with that class
\* the attribute access raises inside the try; a config object that carries
\* GEOIP_URL reaches the request, here the first candidate.
GeoipStatus(resp) == IF geoipUrlDefined THEN resp[1] ELSE "neterr"

\* _download_geosite requests the one GEOSITE_URL.
GeositeStatus(resp) == resp[1]

\* open(file, 'wb'): the file is truncated before the first chunk arrives.
OpenForWrite(f, v) == Truncated(v)

\* f.write(chunk)
WriteChunk(f) == [f EXCEPT !.chunks = f.chunks + 1]

DownloadGeoipRequest(w) ==
    /\ pc[w] = "dl_geoip"
    /\ \E resp \in [1..NumGeoipUrls -> Responses] :
         LET anyOk == \E m \in 1..NumGeoipUrls : resp[m] = "ok" IN
         IF GeoipStatus(resp) = "ok"
         THEN /\ geoipFile' = OpenForWrite(geoipFile, upstream)
              /\ pc' = [pc EXCEPT ![w] = "wr_geoip"]
              /\ run' = [run EXCEPT ![w].mirrorOk = anyOk]
         ELSE /\ geoipFile' = geoipFile
              /\ pc' = [pc EXCEPT ![w] = Raised(w)]
              /\ run' = [run EXCEPT ![w].mirrorOk = anyOk, ![w].geoip = "failed"]
    /\ UNCHANGED <<upstream, geoipUrlDefined, geositeFile, catalog, updateLock,
                   need, lastTrigger, lastEnded, service, nonMgrVars>>

DownloadGeoipChunk(w) ==
    /\ pc[w] = "wr_geoip"
    /\ geoipFile.chunks < NumChunks
    /\ geoipFile' = WriteChunk(geoipFile)
    /\ IF geoipFile'.chunks = NumChunks
       THEN /\ pc' = [pc EXCEPT ![w] = AfterGeoip(w)]
            /\ run' = [run EXCEPT ![w].geoip = "ok"]
       ELSE UNCHANGED <<pc, run>>
    /\ UNCHANGED <<upstream, geoipUrlDefined, geositeFile, catalog, updateLock,
                   need, lastTrigger, lastEnded, service, nonMgrVars>>

\* The stream breaks while the file is being written.
DownloadGeoipAbort(w) ==
    /\ pc[w] = "wr_geoip"
    /\ pc' = [pc EXCEPT ![w] = Raised(w)]
    /\ run' = [run EXCEPT ![w].geoip = "aborted"]
    /\ UNCHANGED <<upstream, geoipUrlDefined, geoipFile, geositeFile, catalog,
                   updateLock, need, lastTrigger, lastEnded, service, nonMgrVars>>

DownloadGeositeRequest(w) ==
    /\ pc[w] = "dl_geosite"
    /\ \E resp \in [1..NumGeositeUrls -> Responses] :
         IF GeositeStatus(resp) = "ok"
         THEN /\ geositeFile' = OpenForWrite(geositeFile, upstream)
              /\ pc' = [pc EXCEPT ![w] = "wr_geosite"]
              /\ run' = run
         ELSE /\ geositeFile' = geositeFile
              /\ pc' = [pc EXCEPT ![w] = Raised(w)]
              /\ run' = [run EXCEPT ![w].geosite = "failed"]
    /\ UNCHANGED <<upstream, geoipUrlDefined, geoipFile, catalog, updateLock,
                   need, lastTrigger, lastEnded, service, nonMgrVars>>

DownloadGeositeChunk(w) ==
    /\ pc[w] = "wr_geosite"
    /\ geositeFile.chunks < NumChunks
    /\ geositeFile' = WriteChunk(geositeFile)
    /\ IF geositeFile'.chunks = NumChunks
       THEN /\ pc' = [pc EXCEPT ![w] = "load"]
            /\ run' = [run EXCEPT ![w].geosite = "ok"]
       ELSE UNCHANGED <<pc, run>>
    /\ UNCHANGED <<upstream, geoipUrlDefined, geoipFile, catalog, updateLock,
                   need, lastTrigger, lastEnded, service, nonMgrVars>>

DownloadGeositeAbort(w) ==
    /\ pc[w] = "wr_geosite"
    /\ pc' = [pc EXCEPT ![w] = Raised(w)]
    /\ run' = [run EXCEPT ![w].geosite = "aborted"]
    /\ UNCHANGED <<upstream, geoipUrlDefined, geoipFile, geositeFile, catalog,
                   updateLock, need, lastTrigger, lastEnded, service, nonMgrVars>>

\* ------------------------------------------------------------ load
\* A faulty variant: the references assigned while the file is still being parsed
LoadedCatalogEager(old, f, parseOk) == ParsedCatalog(f)

\* What _load_geosite_data leaves in memory: the four references are
\* assigned under _data_lock only after the whole file has been parsed; an
\* exception while reading or parsing leaves them alone.
LoadedCatalog(old, f, parseOk) == IF parseOk THEN ParsedCatalog(f) ELSE old

LoadGeositeData(w) ==
    /\ pc[w] = "load"
    /\ IF ~Exists(geositeFile)
       THEN /\ catalog' = catalog
            /\ run' = [run EXCEPT ![w].load = "skipped"]
            /\ pc' = [pc EXCEPT ![w] = AfterLoad(w)]
       ELSE \E parseOk \in BOOLEAN :
            /\ catalog' = LoadedCatalog(catalog, geositeFile, parseOk)
            /\ run' = [run EXCEPT ![w].load = IF parseOk THEN "ok" ELSE "failed"]
            /\ pc' = [pc EXCEPT ![w] = IF parseOk THEN AfterLoad(w) ELSE Raised(w)]
    /\ UNCHANGED <<upstream, geoipUrlDefined, geoipFile, geositeFile,
                   updateLock, need, lastTrigger, lastEnded, service, nonMgrVars>>

\* ------------------------------------------------------------ refresh
\* A faulty variant: a blocking or missing lock test: every trigger goes ahead
TryAcquireAlways(t) == TRUE

\* _update_lock.acquire(blocking=False)
TryAcquire(t) == updateLock = NoThread

\* A faulty variant: the release outside finally: a failed run keeps the lock
ReleaseOnSuccess(t, failed) == IF failed THEN t ELSE NoThread

\* finally: self._update_lock.release()
Release(t, failed) == NoThread

\* run_scheduler: time.sleep(update_interval) is over, _update_data_sync().
Tick(t) ==
    /\ pc[t] = "sleep"
    /\ IF TryAcquire(t)
       THEN /\ updateLock' = t
            /\ pc' = [pc EXCEPT ![t] = "dl_geoip"]
            /\ run' = [run EXCEPT ![t] = [NoRun EXCEPT !.atBegin = catalog]]
            /\ lastTrigger' = [lastTrigger EXCEPT ![t] = "none"]
       ELSE /\ lastTrigger' = [lastTrigger EXCEPT ![t] = "skipped"]
            /\ UNCHANGED <<updateLock, pc, run>>
    /\ UNCHANGED <<upstream, geoipUrlDefined, geoipFile, geositeFile, catalog,
                   need, lastEnded, service, nonMgrVars>>

\* _update_data has returned (it swallows its exceptions); the lock goes
\* back and the loop sleeps again.
Finish(t) ==
    /\ pc[t] = "finish"
    /\ updateLock' = Release(t, Failed(run[t]))
    /\ pc' = [pc EXCEPT ![t] = "sleep"]
    /\ run' = [run EXCEPT ![t] = NoRun]
    /\ lastEnded' = IF Failed(run[t]) THEN "failed" ELSE "ok"
    /\ UNCHANGED <<upstream, geoipUrlDefined, geoipFile, geositeFile, catalog,
                   need, lastTrigger, service, nonMgrVars>>


\* ------------------------------------------------------------ GeoIP service
\* GeoIPService._load_data: the reader is opened when geoip2 is importable
\* and the file exists; Reader() raises on a file that is not a whole MMDB
\* (its metadata is at the end), and the except clause only logs.
ReaderRaises(avail, f) == avail /\ Exists(f) /\ ~IsComplete(f)
OpenedReader(avail, f) == IF avail /\ IsComplete(f) THEN f ELSE Absent

\* _load_cn_ipv4 runs after the reader is opened, inside the same try: an
\* exception from Reader() skips it.  cnVer = 0: no path given, no file, or
\* a file without a valid IPv4 CIDR line.
LoadedCn(avail, f, cnVer) == IF ReaderRaises(avail, f) THEN 0 ELSE cnVer

\* GeoIPService.__init__, by the handler manager once the bot starts.
BuildGeoIPService ==
    /\ pc[Main] = "ready"
    /\ ~service.built
    /\ \E avail \in BOOLEAN, cnVer \in 0..1 :
         service' = [built |-> TRUE,
                     reader |-> OpenedReader(avail, geoipFile),
                     cn |-> LoadedCn(avail, geoipFile, cnVer),
                     loadError |-> ReaderRaises(avail, geoipFile)]
    /\ UNCHANGED <<upstream, geoipUrlDefined, mgrVars, nonMgrVars>>

\* What a lookup through the reader answers from: the reader is opened once
\* and never reopened; it maps the file, which _download_geoip rewrites in
\* place, so a lookup sees the database as opened or the file as it is now.
ReaderViews == IF Exists(service.reader) THEN {service.reader, geoipFile}
               ELSE {Absent}

\* ------------------------------------------------------------ classify
\* is_domain_in_geosite, lines 210-213: the three references are read under
\* _data_lock at every call.
GeositeSnapshot(cat) == [domains |-> cat.domains, keywords |-> cat.keywords,
                         regex |-> cat.regex]

\* A classify operation begins (the catalog of that moment is recorded).
ClassifyStart(c) ==
    /\ service.built
    /\ clsPc[c] \in {"idle", "done"}
    /\ clsPc' = [clsPc EXCEPT ![c] = "geosite_domain"]
    /\ clsSaw' = [clsSaw EXCEPT ![c] = [NoSaw EXCEPT !.atStart = GeositeSnapshot(catalog)]]
    /\ UNCHANGED <<upstream, geoipUrlDefined, mgrVars, service, grpVars, fnVars>>

\* is_domain_in_geosite(domain)
ClassifyGeositeDomain(c) ==
    /\ clsPc[c] = "geosite_domain"
    /\ clsPc' = [clsPc EXCEPT ![c] = "geosite_registered"]
    /\ clsSaw' = [clsSaw EXCEPT ![c].first = GeositeSnapshot(catalog)]
    /\ UNCHANGED <<upstream, geoipUrlDefined, mgrVars, service, grpVars, fnVars>>

\* is_domain_in_geosite(registered domain); a GeoSite hit ends the
\* operation, otherwise the DNS answers go to the GeoIP service.
ClassifyGeositeRegistered(c) ==
    /\ clsPc[c] = "geosite_registered"
    /\ \E covered \in BOOLEAN :
         clsPc' = [clsPc EXCEPT ![c] = IF covered THEN "done" ELSE "geoip"]
    /\ clsSaw' = [clsSaw EXCEPT ![c].second = GeositeSnapshot(catalog)]
    /\ UNCHANGED <<upstream, geoipUrlDefined, mgrVars, service, grpVars, fnVars>>

\* get_country_code for the resolved addresses
ClassifyGeoip(c) ==
    /\ clsPc[c] = "geoip"
    /\ clsPc' = [clsPc EXCEPT ![c] = "done"]
    /\ \E view \in ReaderViews :
         clsSaw' = [clsSaw EXCEPT ![c].reader = view, ![c].cn = service.cn]
    /\ UNCHANGED <<upstream, geoipUrlDefined, mgrVars, service, grpVars, fnVars>>

\* ------------------------------------------------------------ specification
Next ==
    \/ Publish
    \/ InitStart
    \/ StartScheduledUpdates
    \/ BuildGeoIPService
    \/ \E w \in Workers :
         \/ DownloadGeoipRequest(w)
         \/ DownloadGeoipChunk(w)
         \/ DownloadGeoipAbort(w)
         \/ DownloadGeositeRequest(w)
         \/ DownloadGeositeChunk(w)
         \/ DownloadGeositeAbort(w)
         \/ LoadGeositeData(w)
    \/ \E t \in Triggers : Tick(t) \/ Finish(t)

Spec == Init /\ [][Next]_vars

\* The catalog manager together with classify operations in flight.
ReadersNext ==
    \/ Next
    \/ \E c \in Classifiers :
         \/ ClassifyStart(c)
         \/ ClassifyGeositeDomain(c)
         \/ ClassifyGeositeRegistered(c)
         \/ ClassifyGeoip(c)

ReadersSpec == Init /\ [][ReadersNext]_vars

\* The timer of each scheduler loop fires again and again, and a refresh
\* that holds the lock runs to its end.
FairSpec ==
    /\ Spec
    /\ \A t \in Triggers :
         /\ WF_vars(Tick(t))
         /\ WF_vars(Finish(t))


\* ------------------------------------------------------------ domains
\* str.lower() on the labels that occur here
Lower(label) ==
    CASE label \in {"@RuleBot", "@RULEBOT"} -> "@rulebot"
      [] label = "WWW" -> "www"
      [] label = "Example" -> "example"
      [] label = "HTTP:" -> "http:"
      [] OTHER -> label

\* A URL token starts with its scheme and may carry a port and a path
Schemes == {"http:", "https:"}
PortLabel == ":8080"
PathLabel == "/path"

\* URL_PATTERN: https?://..., whatever the case
IsUrl(token) == Len(token) > 0 /\ Lower(token[1]) \in Schemes

\* What is left of a token without scheme, port and path
IsHostLabel(label) == Lower(label) \notin Schemes \cup {PortLabel, PathLabel}

LastLabels(d, n) == SubSeq(d, Len(d) - n + 1, Len(d))

\* The multi-label public suffixes of the static table
MultiLabelSuffixes == { <<"com", "cn">>, <<"net", "cn">>, <<"org", "cn">>,
                        <<"gov", "cn">>, <<"edu", "cn">>, <<"ac", "cn">>,
                        <<"co", "uk">> }

\* domain_utils.is_valid_domain: at least two labels
IsValidDomain(d) == Len(d) >= 2

\* domain_utils.normalize_domain: the host, lower case, a leading www label
\* dropped
NormalizeDomain(d) ==
    LET host == SelectSeq(d, IsHostLabel)
        low == [i \in 1..Len(host) |-> Lower(host[i])]
    IN IF Len(low) > 2 /\ low[1] = "www" THEN Tail(low) ELSE low

\* domain_utils.is_cn_domain: the top-level label is cn
IsCnDomain(d) == Len(d) > 0 /\ d[Len(d)] = "cn"

\* A faulty variant: the last two labels, whatever the table holds
ExtractSecondLevelDomainLastTwo(d) == LastLabels(d, 2)

\* domain_utils.extract_second_level_domain
ExtractSecondLevelDomain(d) ==
    IF Len(d) >= 3 /\ LastLabels(d, 2) \in MultiLabelSuffixes THEN LastLabels(d, 3)
    ELSE IF Len(d) >= 2 THEN LastLabels(d, 2)
    ELSE d

\* domain_utils.extract_second_level_domain_for_rules: nothing for .cn
ExtractSecondLevelDomainForRules(d) ==
    IF IsCnDomain(d) THEN None ELSE ExtractSecondLevelDomain(d)

\* The loops at lines 71-74 and 78-81: the first match whose normalized
\* form is a valid domain
RECURSIVE FirstValidOf(_)
FirstValidOf(matches) ==
    IF matches = << >> THEN None
    ELSE LET normalized == NormalizeDomain(Head(matches))
         IN IF normalized # None /\ IsValidDomain(normalized) THEN normalized
            ELSE FirstValidOf(Tail(matches))

\* DOMAIN_PATTERN.findall: the domain-shaped part of every token
DomainMatches(text) == [i \in 1..Len(text) |-> SelectSeq(text[i], IsHostLabel)]

\* text_extractor.extract_first_valid_domain: the URLs first, then the
\* plain domains
ExtractFirstValidDomain(text) ==
    IF text = << >> THEN None
    ELSE LET url == FirstValidOf(SelectSeq(text, IsUrl))
         IN IF url # None THEN url ELSE FirstValidOf(DomainMatches(text))

\* A faulty variant: the registered domain also for a cn domain
ExtractDomainForRulesKeepCn(text) ==
    LET domain == ExtractFirstValidDomain(text)
    IN IF domain = None THEN None ELSE ExtractSecondLevelDomain(domain)

\* text_extractor.extract_domain_for_rules
ExtractDomainForRules(text) ==
    LET domain == ExtractFirstValidDomain(text)
    IN IF domain = None THEN None ELSE ExtractSecondLevelDomainForRules(domain)

\* f"@{bot_username}".lower()
AtName(name) == IF name = BotName THEN "@rulebot" ELSE "@"

\* text_extractor.remove_bot_mention: every @name token goes, whatever its case
RemoveBotMention(text, name) ==
    IF text = << >> \/ name = "" THEN text
    ELSE LET keep(token) == ~(Len(token) = 1 /\ Lower(token[1]) = AtName(name))
         IN SelectSeq(text, keep)

\* f"@{bot_username}".lower() in label.lower(), on the labels that occur here
ContainsAtName(label, name) ==
    IF name = BotName THEN Lower(label) \in {"@rulebot", "@rulebot_fan"}
    ELSE Lower(label) \in {"@rulebot", "@rulebot_fan", "@alice"}

\* GroupHandler.is_bot_mentioned: a mention entity that reads "@name", or
\* "@name" anywhere in the lowered text
IsBotMentioned(text, name) ==
    /\ text # << >>
    /\ \/ \E i \in 1..Len(text) :
            Len(text[i]) = 1 /\ Lower(text[i][1]) = AtName(name)
       \/ \E i \in 1..Len(text) : \E k \in 1..Len(text[i]) :
            ContainsAtName(text[i][k], name)

\* A faulty variant: the replied-to message first
ExtractDomainFromMessageReplyFirst(text, hasReply, replyText, name) ==
    LET cleanText == IF name # "" THEN RemoveBotMention(text, name) ELSE text
        domain == IF hasReply THEN ExtractDomainForRules(replyText) ELSE None
    IN IF domain # None THEN domain ELSE ExtractDomainForRules(cleanText)

\* GroupHandler._extract_domain_from_message: the message first, the
\* replied-to message when the message yields nothing
ExtractDomainFromMessage(text, hasReply, replyText, name) ==
    LET cleanText == IF name # "" THEN RemoveBotMention(text, name) ELSE text
        domain == ExtractDomainForRules(cleanText)
    IN IF domain # None THEN domain
       ELSE IF hasReply THEN ExtractDomainForRules(replyText)
       ELSE None

\* ------------------------------------------------------------ group entry
\* HandlerManager.check_user_add_limit
CheckUserAddLimit(u) == userAdds[u] < MaxAddsPerHour

nonGrpVars == <<upstream, geoipUrlDefined, mgrVars, service, clsVars, fnVars>>

\* GroupHandler.handle_group_message up to its reply or its call of
\* _process_domain_request.  The handler is registered when
\* ALLOWED_GROUP_IDS is not empty (bot.py, line 97); the application is built
\* without concurrent updates, so a message is handled when the one before
\* it is done.
HandleGroupMessage ==
    /\ allowedGroups # {}
    /\ req.pc = "idle"
    /\ \E chatType \in {"private", "group", "supergroup"}, chatId \in ChatIds,
          user \in Users, text \in MessageTexts, hasReply \in BOOLEAN,
          replyText \in ReplyTexts, getMeOk \in BOOLEAN :
         /\ ~hasReply => replyText = << >>
         /\ LET m == [NoReq EXCEPT !.chatType = chatType, !.chatId = chatId,
                                   !.user = user, !.text = text,
                                   !.hasReply = hasReply, !.replyText = replyText]
                ended(o) == [m EXCEPT !.pc = "done", !.outcome = o]
                domain == ExtractDomainFromMessage(text, hasReply, replyText, BotName)
            IN IF chatType \notin {"group", "supergroup"} \/ chatId \notin allowedGroups
               THEN req' = ended("ignored") /\ UNCHANGED botUsername
               ELSE IF botUsername = "" /\ ~getMeOk
               THEN req' = ended("failed") /\ UNCHANGED botUsername
               ELSE /\ botUsername' = BotName
                    /\ req' = IF ~IsBotMentioned(text, BotName) THEN ended("ignored")
                              ELSE IF domain = None THEN ended("no_valid_domain")
                              ELSE IF IsCnDomain(domain)
                                   THEN [ended("cn_default_direct") EXCEPT !.domain = domain]
                              ELSE [m EXCEPT !.pc = "process", !.domain = domain]
    /\ UNCHANGED <<nonGrpVars, allowedGroups, userAdds>>

\* _process_domain_request, lines 206-222: the limit is checked, then
\* check_and_add_domain_auto is awaited.
ProcessDomainRequest ==
    /\ req.pc = "process"
    /\ req' = IF CheckUserAddLimit(req.user)
              THEN [req EXCEPT !.pc = "checking", !.limitChecked = TRUE,
                               !.checkCalled = TRUE]
              ELSE [req EXCEPT !.pc = "done", !.limitChecked = TRUE,
                               !.outcome = "limited"]
    /\ UNCHANGED <<nonGrpVars, allowedGroups, botUsername, userAdds>>

\* A faulty variant: an add recorded for every result
RecordsAddAlways(action) == action # "failed"

\* lines 225-227: record_user_add is called for the action added
RecordsAdd(action) == action = "added"

\* _process_domain_request, lines 225-256: check_and_add_domain_auto has
\* returned (or raised); an add is recorded.
CheckAndAddReturns ==
    /\ req.pc = "checking"
    /\ \E action \in {"added", "exists", "rejected", "error", "failed"} :
         /\ req' = [req EXCEPT !.pc = "done", !.outcome = action,
                               !.recorded = RecordsAdd(action)]
         /\ userAdds' = IF RecordsAdd(action)
                        THEN [userAdds EXCEPT ![req.user] = @ + 1]
                        ELSE userAdds
    /\ UNCHANGED <<nonGrpVars, allowedGroups, botUsername>>

\* The hour of a user's recorded adds is over.
HourPasses(u) ==
    /\ userAdds[u] > 0
    /\ userAdds' = [userAdds EXCEPT ![u] = 0]
    /\ UNCHANGED <<nonGrpVars, allowedGroups, botUsername, req>>

\* The handler has returned: the application takes the next update.
NextUpdate ==
    /\ req.pc = "done"
    /\ req' = NoReq
    /\ UNCHANGED <<nonGrpVars, allowedGroups, botUsername, userAdds>>

GroupNext ==
    \/ HandleGroupMessage
    \/ NextUpdate
    \/ ProcessDomainRequest
    \/ CheckAndAddReturns
    \/ \E u \in Users : HourPasses(u)

\* The group entry alone: the catalog manager stays as it starts.
GroupInit ==
    /\ ManagerInit
    /\ ~geoipUrlDefined /\ geoipFile = Absent /\ geositeFile = Absent
    /\ \E ids \in SUBSET ChatIds : GroupIdle(ids)
    /\ FnIdle

GroupSpec == GroupInit /\ [][GroupNext]_vars

\* The catalog manager not started, no group whitelisted: the start of the
\* specifications of single lookups, checks and extractions.
QuietInit ==
    /\ ManagerInit
    /\ ~geoipUrlDefined /\ geoipFile = Absent /\ geositeFile = Absent
    /\ GroupIdle({})
    /\ FnIdle

\* ------------------------------------------------------------ strings
\* A string is its sequence of characters.
LowerChar(c) == IF c = "A" THEN "a" ELSE IF c = "B" THEN "b" ELSE c

\* str.lower()
LowerStr(s) == [i \in 1..Len(s) |-> LowerChar(s[i])]

\* str.strip(): the blanks at both ends go
RECURSIVE Strip(_)
Strip(s) ==
    IF s = << >> THEN s
    ELSE IF Head(s) = " " THEN Strip(Tail(s))
    ELSE IF s[Len(s)] = " " THEN Strip(SubSeq(s, 1, Len(s) - 1))
    ELSE s

\* str.split(sep): the parts between the separators, empty parts included
RECURSIVE SplitFrom(_, _, _)
SplitFrom(s, sep, part) ==
    IF s = << >> THEN <<part>>
    ELSE IF Head(s) = sep THEN <<part>> \o SplitFrom(Tail(s), sep, << >>)
    ELSE SplitFrom(Tail(s), sep, Append(part, Head(s)))

Split(s, sep) == SplitFrom(s, sep, << >>)

\* sep.join(parts)
RECURSIVE Join(_, _)
Join(parts, sep) ==
    IF parts = << >> THEN << >>
    ELSE IF Len(parts) = 1 THEN parts[1]
    ELSE parts[1] \o <<sep>> \o Join(Tail(parts), sep)

\* k in s
IsSubstring(k, s) ==
    \E i \in 0..(Len(s) - Len(k)) : SubSeq(s, i + 1, i + Len(k)) = k

\* The strings of 1..n characters over an alphabet
StringsOver(alphabet, n) == UNION { [1..k -> alphabet] : k \in 1..n }

\* ------------------------------------------------------------ GeoSite matcher
\* Characters of a queried domain
MaxQueryLen == 3

\* A compiled pattern of the form ^?literal$?, compiled with re.IGNORECASE
Regexes == { [pre |-> TRUE, lit |-> <<"a">>, post |-> FALSE],
             [pre |-> FALSE, lit |-> <<".", "B">>, post |-> TRUE],
             [pre |-> FALSE, lit |-> <<"b", "a">>, post |-> FALSE] }

\* Patterns as written in a file that give no compiled pattern: one that
\* re.compile rejects with re.error, and the empty one
BadPattern == [pre |-> FALSE, lit |-> <<"(">>, post |-> FALSE]
EmptyPattern == [pre |-> FALSE, lit |-> << >>, post |-> FALSE]

\* re.compile(pattern, re.IGNORECASE) returns
Compiles(rx) == rx # BadPattern

\* pattern.search(s)
RegexSearch(rx, s) ==
    \E i \in 0..(Len(s) - Len(rx.lit)) :
        /\ SubSeq(s, i + 1, i + Len(rx.lit)) = LowerStr(rx.lit)
        /\ rx.pre => i = 0
        /\ rx.post => i + Len(rx.lit) = Len(s)

\* The lines of a GeoSite file: a prefix and what follows it
LineBodies == StringsOver({"a", "b", "."}, MaxQueryLen) \cup { <<"A", ".", "b">> }
GeositeLines ==
    [kind : {"full:", "domain:", ""}, body : LineBodies]
    \cup [kind : {"full:", "domain:"}, body : { << >> }]
    \cup [kind : {"keyword:"},
          body : StringsOver({"a", "b", "."}, 2)
                 \cup { <<"A">>, << >>, <<" ", "a">> }]
    \cup [kind : {"regexp:"}, body : Regexes \cup {BadPattern, EmptyPattern}]
    \cup [kind : {"include:", "geosite:"}, body : { <<"a">>, << >> }]
    \cup [kind : {"#"}, body : { <<"a">> }]

NoEntries == [domains |-> {}, keywords |-> << >>, regex |-> << >>,
              includes |-> << >>]

\* _load_geosite_data, lines 150-177: the collections parsed from the lines
RECURSIVE ParseGeosite(_, _)

\* A faulty variant: re.error leaves the loop, the load raises and nothing
\* is assigned
RegexErrorAborts(lines, acc) == NoEntries

\* except re.error: the line is logged and the loop goes on
RegexError(lines, acc) == ParseGeosite(Tail(lines), acc)

ParseGeosite(lines, acc) ==
    IF lines = << >> THEN acc
    ELSE LET line == Head(lines)
             next ==
               IF line.kind \in {"full:", "domain:", ""}
               THEN IF line.body # << >>
                    THEN [acc EXCEPT !.domains = @ \cup {LowerStr(line.body)}]
                    ELSE acc
               ELSE IF line.kind = "keyword:"
               THEN IF Strip(line.body) # << >>
                    THEN [acc EXCEPT !.keywords =
                                         Append(@, LowerStr(Strip(line.body)))]
                    ELSE acc
               ELSE IF line.kind = "regexp:"
               THEN IF line.body # EmptyPattern
                    THEN [acc EXCEPT !.regex = Append(@, line.body)]
                    ELSE acc
               ELSE IF line.kind \in {"include:", "geosite:"}
               THEN IF line.body # << >>
                    THEN [acc EXCEPT !.includes = Append(@, line.body)]
                    ELSE acc
               ELSE acc
         IN IF line.kind = "regexp:" /\ ~Compiles(line.body)
            THEN RegexError(lines, acc)
            ELSE ParseGeosite(Tail(lines), next)

\* A query that is no string (None): domain.lower() raises
NoStr == <<"None">>

\* A faulty variant: the reverse check, a catalog entry below the query matches
IsDomainInGeositeReverse(cat, query) ==
    IF query = NoStr THEN FALSE
    ELSE LET domain == Strip(LowerStr(query))
         IN IF domain = << >> THEN FALSE
            ELSE \/ domain \in cat.domains
                 \/ \E e \in cat.domains :
                      LET parts == Split(e, ".")
                      IN \E i \in 1..(Len(parts) - 1) :
                           Join(SubSeq(parts, i + 1, Len(parts)), ".") = domain
                 \/ LET parts == Split(domain, ".")
                    IN \E i \in 1..(Len(parts) - 1) :
                         Join(SubSeq(parts, i + 1, Len(parts)), ".") \in cat.domains
                 \/ \E j \in 1..Len(cat.keywords) :
                      cat.keywords[j] # << >> /\ IsSubstring(cat.keywords[j], domain)
                 \/ \E j \in 1..Len(cat.regex) : RegexSearch(cat.regex[j], domain)

\* DataManager.is_domain_in_geosite on the snapshot cat: the except clause
\* answers False
IsDomainInGeosite(cat, query) ==
    IF query = NoStr THEN FALSE
    ELSE LET domain == Strip(LowerStr(query))
         IN IF domain = << >> THEN FALSE
            ELSE \/ domain \in cat.domains
                 \/ LET parts == Split(domain, ".")
                    IN \E i \in 1..(Len(parts) - 1) :
                         Join(SubSeq(parts, i + 1, Len(parts)), ".") \in cat.domains
                 \/ \E j \in 1..Len(cat.keywords) :
                      cat.keywords[j] # << >> /\ IsSubstring(cat.keywords[j], domain)
                 \/ \E j \in 1..Len(cat.regex) : RegexSearch(cat.regex[j], domain)

\* Lines every drawn file may carry besides the drawn one
BackgroundLines == << [kind |-> "domain:", body |-> <<"b">>],
                      [kind |-> "keyword:", body |-> <<"a", "a">>] >>

Queries == StringsOver({"a", "b", ".", "A", " "}, MaxQueryLen) \cup {NoStr}

nonSiteVars == <<upstream, geoipUrlDefined, mgrVars, service, clsVars, grpVars,
                 chk, geo, ext, cfg, doh, flight, mem>>

\* A GeoSite file is loaded: one line, alone or between two others.
SiteLoad(fileLines) ==
    /\ site.pc = "idle"
    /\ \E line \in fileLines, background \in BOOLEAN :
         LET lines == IF background
                      THEN <<BackgroundLines[1], line, BackgroundLines[2]>>
                      ELSE <<line>>
         IN site' = [pc |-> "loaded", lines |-> lines,
                     cat |-> ParseGeosite(lines, NoEntries)]
    /\ UNCHANGED nonSiteVars

\* is_domain_in_geosite(query) is called.
SiteLookup(queries) ==
    /\ site.pc = "loaded"
    /\ \E query \in queries :
         site' = [pc |-> "done", cat |-> site.cat, query |-> query,
                  result |-> IsDomainInGeosite(site.cat, query)]
    /\ UNCHANGED nonSiteVars

GeositeNext == SiteLoad(GeositeLines) \/ SiteLookup(Queries)

GeositeSpec == QuietInit /\ [][GeositeNext]_vars

\* ------------------------------------------------------------ GeoIP lookups
\* Bits of an address (an IPv4 address has 32)
AddrBits == 2
\* Lines of a CN IPv4 CIDR file
MaxCidrs == 2

Addrs == 0..(2^AddrBits - 1)

\* No code: None, or an empty iso_code
NoCode == ""
\* An exception on its way up
Raise == "<raise>"

\* The lines of the CN IPv4 file: a.b.c.d/prefix (host bits allowed,
\* strict=False), an IPv6 network, a line ip_network rejects, a comment
CidrLines ==
    [kind : {"v4"}, addr : Addrs, prefix : 0..AddrBits]
    \cup [kind : {"v6", "bad", "#"}, addr : {0}, prefix : {0}]

\* ipaddress.ip_network(line, strict=False): network and broadcast address
BlockSize(line) == 2^(AddrBits - line.prefix)
NetworkRange(line) ==
    LET start == (line.addr \div BlockSize(line)) * BlockSize(line)
    IN [start |-> start, end |-> start + BlockSize(line) - 1]

\* _load_cn_ipv4, lines 105-119: the ranges of the IPv4 networks, in file order
RECURSIVE ParseCidrs(_)
ParseCidrs(lines) ==
    IF lines = << >> THEN << >>
    ELSE IF Head(lines).kind = "v4"
         THEN <<NetworkRange(Head(lines))>> \o ParseCidrs(Tail(lines))
         ELSE ParseCidrs(Tail(lines))

\* ranges.sort(key=lambda item: item[0]): stable, by start only
RECURSIVE InsertByStart(_, _)
InsertByStart(sorted, r) ==
    IF sorted = << >> THEN <<r>>
    ELSE IF r.start < Head(sorted).start THEN <<r>> \o sorted
    ELSE <<Head(sorted)>> \o InsertByStart(Tail(sorted), r)

RECURSIVE SortByStart(_)
SortByStart(rs) ==
    IF rs = << >> THEN << >>
    ELSE InsertByStart(SortByStart(SubSeq(rs, 1, Len(rs) - 1)), rs[Len(rs)])

\* A faulty variant: the end of the last range overwritten, not maximised
MergedEndLast(lastEnd, end) == end

\* merged[-1][1] = max(merged[-1][1], end)
MergedEnd(lastEnd, end) == IF end > lastEnd THEN end ELSE lastEnd

\* A faulty variant: only overlapping ranges become one
RECURSIVE MergeRangesOverlapping(_, _)
MergeRangesOverlapping(sorted, merged) ==
    IF sorted = << >> THEN merged
    ELSE LET r == Head(sorted)
             n == Len(merged)
         IN IF n = 0 \/ r.start > merged[n].end
            THEN MergeRangesOverlapping(Tail(sorted), Append(merged, r))
            ELSE MergeRangesOverlapping(Tail(sorted),
                             [merged EXCEPT ![n].end = MergedEnd(@, r.end)])

\* _load_cn_ipv4, lines 126-131: overlapping and adjacent ranges become one
RECURSIVE MergeRanges(_, _)
MergeRanges(sorted, merged) ==
    IF sorted = << >> THEN merged
    ELSE LET r == Head(sorted)
             n == Len(merged)
         IN IF n = 0 \/ r.start > merged[n].end + 1
            THEN MergeRanges(Tail(sorted), Append(merged, r))
            ELSE MergeRanges(Tail(sorted),
                             [merged EXCEPT ![n].end = MergedEnd(@, r.end)])

\* _load_cn_ipv4: _cn_ipv4_ranges after the call; no file or no IPv4 line
\* leaves the empty list
LoadCnIpv4(lines) ==
    LET ranges == ParseCidrs(lines)
    IN IF ranges = << >> THEN << >> ELSE MergeRanges(SortByStart(ranges), << >>)

\* line 134: _cn_ipv4_range_starts
RangeStarts(ranges) == [i \in 1..Len(ranges) |-> ranges[i].start]

\* bisect.bisect_right(a, x, lo, hi)
RECURSIVE BisectRight(_, _, _, _)
BisectRight(a, x, lo, hi) ==
    IF lo >= hi THEN lo
    ELSE LET mid == (lo + hi) \div 2
         IN IF x < a[mid + 1] THEN BisectRight(a, x, lo, mid)
            ELSE BisectRight(a, x, mid + 1, hi)

\* What is asked about: a dotted quad, a short form inet_aton takes and
\* ipaddress does not ("127.1"), an IPv6 address, anything else
IpInputs ==
    [kind : {"quad", "short"}, addr : Addrs]
    \cup [kind : {"v6", "junk"}, addr : {0}]

\* What reader.country(ip) does: a record with its three iso codes,
\* AddressNotFoundError, or another exception
Codes == {NoCode, "CN", "US"}
ReaderAnswers ==
    [kind : {"record"}, country : Codes, registered : Codes, represented : Codes]
    \cup [kind : {"absent", "error"}, country : {NoCode}, registered : {NoCode},
          represented : {NoCode}]

\* A faulty variant: the exception passed on to the caller
Uncaught(x) == x

\* except ...: return None
Caught(x) == IF x = Raise THEN NoCode ELSE x

\* _fallback_china_check
FallbackChinaCheck(ranges, input) ==
    Caught(IF ranges = << >> THEN NoCode
           ELSE IF input.kind # "quad" THEN Raise
           ELSE LET starts == RangeStarts(ranges)
                    index == BisectRight(starts, input.addr, 0, Len(starts)) - 1
                IN IF index >= 0 /\ input.addr <= ranges[index + 1].end
                   THEN "CN" ELSE NoCode)

\* lines 59-64: country, else registered_country, else represented_country
RecordCode(answer) ==
    IF answer.country # NoCode THEN answer.country
    ELSE IF answer.registered # NoCode THEN answer.registered
    ELSE answer.represented

\* socket.inet_aton(ip) raises
InetAtonRaises(input) == input.kind \in {"v6", "junk"}

\* A faulty variant: the CN ranges asked before the database
GetCountryCodeCnFirst(svc, input, answer) ==
    Caught(IF InetAtonRaises(input) THEN Raise
           ELSE IF FallbackChinaCheck(svc.ranges, input) # NoCode
           THEN FallbackChinaCheck(svc.ranges, input)
           ELSE IF svc.reader /\ answer.kind = "record"
           THEN RecordCode(answer)
           ELSE NoCode)

\* GeoIPService.get_country_code
GetCountryCode(svc, input, answer) ==
    Caught(IF InetAtonRaises(input) THEN Raise
           ELSE IF svc.reader
           THEN IF answer.kind = "record" /\ RecordCode(answer) # NoCode
                THEN RecordCode(answer)
                ELSE FallbackChinaCheck(svc.ranges, input)
           ELSE FallbackChinaCheck(svc.ranges, input))

\* GeoIPService.is_china_ip
IsChinaIp(code) == code = "CN"

\* The CN IPv4 files of up to MaxCidrs lines
CnFiles == UNION { [1..k -> CidrLines] : k \in 0..MaxCidrs }

\* No file, and a file of one network and one comment
SmallCnFiles == { << >>,
                  << [kind |-> "#", addr |-> 0, prefix |-> 0],
                     [kind |-> "v4", addr |-> 1, prefix |-> 1] >> }

nonGeoVars == <<upstream, geoipUrlDefined, mgrVars, service, clsVars, grpVars,
                chk, site, ext, cfg, doh, flight, mem>>

\* GeoIPService.__init__: the reader is opened or not, the CN file loaded.
GeoLoad(files, readers) ==
    /\ geo.pc = "idle"
    /\ \E lines \in files, reader \in readers :
         geo' = [pc |-> "loaded", lines |-> lines, reader |-> reader,
                 ranges |-> LoadCnIpv4(lines),
                 starts |-> RangeStarts(LoadCnIpv4(lines))]
    /\ UNCHANGED nonGeoVars

\* get_country_code(ip) is called.
GeoLookup(inputs, answers) ==
    /\ geo.pc = "loaded"
    /\ \E input \in inputs, answer \in answers :
         geo' = [pc |-> "done", lines |-> geo.lines, reader |-> geo.reader,
                 ranges |-> geo.ranges, starts |-> geo.starts,
                 input |-> input, answer |-> answer,
                 result |-> GetCountryCode(geo, input, answer)]
    /\ UNCHANGED nonGeoVars

\* The CN IPv4 index alone: every file, no reader, dotted quads.
CnNext ==
    \/ GeoLoad(CnFiles, {FALSE})
    \/ GeoLookup([kind : {"quad"}, addr : Addrs],
                 {[kind |-> "absent", country |-> NoCode, registered |-> NoCode,
                   represented |-> NoCode]})

CnSpec == QuietInit /\ [][CnNext]_vars


\* Both lookups side by side: the GeoIP service with a reader or without,
\* with a CN file or without, asked about every kind of input, and the
\* GeoSite matcher over a small catalog.
LookupNext ==
    \/ GeoLoad(SmallCnFiles, BOOLEAN)
    \/ GeoLookup(IpInputs, ReaderAnswers)
    \/ SiteLoad({ [kind |-> "domain:", body |-> <<"a">>],
                  [kind |-> "regexp:", body |-> [pre |-> TRUE, lit |-> <<"a">>,
                                                 post |-> FALSE]] })
    \/ SiteLookup({ NoStr, <<"a">>, <<"b", ".", "a">> })

LookupSpec == QuietInit /\ [][LookupNext]_vars

\* ------------------------------------------------------------ extraction
\* Labels of a domain
MaxLabels == 4
\* Tokens of a text
MaxTokens == 2

DomainLabels == {"www", "a", "com", "cn", "co", "uk"}
Domains == UNION { [1..k -> DomainLabels] : k \in 2..MaxLabels }

Ucn == <<"HTTP:", "WWW", "Example", "com", "cn", "/path">>
Ucom == <<"https:", "a", "foo", "com", ":8080">>
Ulocal == <<"http:", "localhost", "/path">>
TextTokens == { Word, <<"@rulebot">>, Dcn, Dcomcn, Dcom, Dbare, Ucn, Ucom, Ulocal }
Texts == UNION { [1..k -> TextTokens] : k \in 0..MaxTokens }

nonExtVars == <<upstream, geoipUrlDefined, mgrVars, service, clsVars, grpVars,
                chk, site, geo, cfg, doh, flight, mem>>

\* extract_second_level_domain(domain) is called, and again on its result.
ExtractSecond ==
    /\ ext.pc = "idle"
    /\ \E d \in Domains :
         ext' = [pc |-> "second", domain |-> d,
                 result |-> ExtractSecondLevelDomain(d),
                 again |-> ExtractSecondLevelDomain(ExtractSecondLevelDomain(d))]
    /\ UNCHANGED nonExtVars

\* extract_domain_for_rules(text) is called.
ExtractForRules ==
    /\ ext.pc = "idle"
    /\ \E text \in Texts :
         ext' = [pc |-> "rules", text |-> text,
                 result |-> ExtractDomainForRules(text)]
    /\ UNCHANGED nonExtVars

DomainNext == ExtractSecond \/ ExtractForRules

DomainSpec == QuietInit /\ [][DomainNext]_vars

\* ------------------------------------------------------------ classifier
\* What classify is asked about
CheckInputs == { Word, Dcn, Dcomcn, Ucn, Dcom, Dbare, Ucom,
                 <<"www", "foo", "com">>, <<"WWW", "Example", "com">>,
                 <<"a", "b", "example", "co", "uk">>, <<"example", "co", "uk">>,
                 <<"a", "foo", "net">>, <<"cn", "foo", "com">>,
                 <<"shop", "com", "cn", "bar", "net">> }

\* The result of check_domain_comprehensive before any signal is known
NoSignals(input) ==
    [pc |-> "normalized", input |-> input, domain |-> NormalizeDomain(input),
     second_level_domain |-> ExtractSecondLevelDomain(NormalizeDomain(input)),
     domain_china_status |-> FALSE, second_level_china_status |-> FALSE,
     ns_china_status |-> FALSE, rule_exists |-> FALSE,
     domain_in_geosite |-> FALSE, second_level_in_geosite |-> FALSE,
     decision |-> "none", reason |-> "none", target |-> None]

\* DomainChecker.should_add_directly
ShouldAddDirectly(result) ==
    /\ ~result.ns_china_status
    /\ result.domain_china_status \/ result.second_level_china_status

\* DomainChecker.should_reject
ShouldReject(result) == ~ShouldAddDirectly(result)

\* A faulty variant: the domain as it was asked about
GetTargetDomainAsAsked(result) ==
    IF ShouldAddDirectly(result) THEN result.domain ELSE None

\* DomainChecker.get_target_domain_to_add
GetTargetDomainToAdd(result) ==
    IF ShouldAddDirectly(result) THEN result.second_level_domain ELSE None

\* A faulty variant: the addresses looked at before the name servers
DecisionIpFirst(result) ==
    IF result.domain_china_status \/ result.second_level_china_status THEN "add"
    ELSE "reject"

\* The decision table: the first row that matches
Decision(result) ==
    IF result.ns_china_status THEN "reject"
    ELSE IF result.domain_china_status \/ result.second_level_china_status
    THEN "add"
    ELSE "reject"

nonChkVars == <<upstream, geoipUrlDefined, mgrVars, service, clsVars, grpVars,
                site, geo, ext, cfg, doh, flight, mem>>

\* Step 1: the input is normalized; no valid domain is an error, a cn
\* domain is covered by default.
ClassifyNormalize ==
    /\ chk.pc = "idle"
    /\ \E input \in CheckInputs :
         LET r == NoSignals(input)
         IN chk' = IF r.domain = None \/ ~IsValidDomain(r.domain)
                   THEN [r EXCEPT !.pc = "done", !.decision = "error",
                                  !.reason = "no valid domain"]
                   ELSE IF IsCnDomain(r.domain)
                   THEN [r EXCEPT !.pc = "done", !.decision = "already_covered",
                                  !.reason = "cn domain, default direct"]
                   ELSE r
    /\ UNCHANGED nonChkVars

\* Steps 3 to 5: the rule store is consulted and, when it has no rule, the
\* GeoSite catalog.
ClassifyEarlyExits ==
    /\ chk.pc = "normalized"
    /\ \E ruleExists \in BOOLEAN, domainInGeosite \in BOOLEAN,
          registeredInGeosite \in BOOLEAN :
         /\ ruleExists => ~domainInGeosite /\ ~registeredInGeosite
         /\ chk.domain = chk.second_level_domain =>
                registeredInGeosite = domainInGeosite
         /\ chk' = IF ruleExists
                   THEN [chk EXCEPT !.pc = "done", !.rule_exists = TRUE,
                                    !.decision = "already_covered",
                                    !.reason = "rule exists"]
                   ELSE IF domainInGeosite \/ registeredInGeosite
                   THEN [chk EXCEPT !.pc = "done",
                                    !.domain_in_geosite = domainInGeosite,
                                    !.second_level_in_geosite = registeredInGeosite,
                                    !.decision = "already_covered",
                                    !.reason = "covered by geosite"]
                   ELSE [chk EXCEPT !.pc = "resolving"]
    /\ UNCHANGED nonChkVars

\* Steps 6 to 8: the signals come in (a failed resolution is a false
\* signal; the registered domain is resolved apart only when it differs),
\* and the table decides.
ClassifyDecide ==
    /\ chk.pc = "resolving"
    /\ \E ip \in BOOLEAN, registeredIp \in BOOLEAN, ns \in BOOLEAN :
         /\ chk.domain = chk.second_level_domain => registeredIp = ip
         /\ LET r == [chk EXCEPT !.domain_china_status = ip,
                                 !.second_level_china_status = registeredIp,
                                 !.ns_china_status = ns]
            IN chk' = [r EXCEPT !.pc = "done", !.decision = Decision(r),
                                !.reason = "decided",
                                !.target = GetTargetDomainToAdd(r)]
    /\ UNCHANGED nonChkVars

VerdictNext == ClassifyNormalize \/ ClassifyEarlyExits \/ ClassifyDecide

VerdictSpec == QuietInit /\ [][VerdictNext]_vars

\* ------------------------------------------------------------ configuration
\* Characters of the DATA_UPDATE_INTERVAL variable
MaxIntervalLen == 3
\* default_interval = 6 * 60 * 60
DefaultInterval == 21600

\* The variable unset: os.getenv gives ""
IntervalValues == StringsOver({"0", "1", "5", "-", "+", " ", "x"}, MaxIntervalLen)
                  \cup { << >> }

DigitValue(c) == CASE c = "0" -> 0 [] c = "1" -> 1 [] c = "5" -> 5 [] OTHER -> 0

IsDigits(s) == s # << >> /\ \A i \in 1..Len(s) : s[i] \in {"0", "1", "5"}

RECURSIVE DigitsValue(_)
DigitsValue(s) ==
    IF s = << >> THEN 0
    ELSE DigitsValue(SubSeq(s, 1, Len(s) - 1)) * 10 + DigitValue(s[Len(s)])

\* int(value): blanks at both ends go, one sign, then digits; ok is FALSE
\* for ValueError
IntOf(value) ==
    LET text == Strip(value)
        signed == text # << >> /\ Head(text) \in {"+", "-"}
        digits == IF signed THEN Tail(text) ELSE text
    IN IF ~IsDigits(digits) THEN [ok |-> FALSE, val |-> 0]
       ELSE [ok |-> TRUE,
             val |-> IF signed /\ Head(text) = "-" THEN 0 - DigitsValue(digits)
                     ELSE DigitsValue(digits)]

\* A faulty variant: the parsed number as it is
ParseUpdateIntervalUnchecked(value) ==
    IF value = << >> THEN DefaultInterval
    ELSE IF IntOf(value).ok THEN IntOf(value).val ELSE DefaultInterval

\* Config._parse_update_interval
ParseUpdateInterval(value) ==
    IF value = << >> THEN DefaultInterval
    ELSE IF IntOf(value).ok /\ IntOf(value).val > 0 THEN IntOf(value).val
    ELSE DefaultInterval

nonCfgVars == <<upstream, geoipUrlDefined, mgrVars, service, clsVars, grpVars,
                chk, site, geo, ext, doh, flight, mem>>

\* Config.__init__, lines 89-91: the variable is read and parsed.
LoadConfig ==
    /\ cfg.pc = "idle"
    /\ \E value \in IntervalValues :
         cfg' = [pc |-> "loaded", value |-> value,
                 interval |-> ParseUpdateInterval(value), slept |-> 0]
    /\ UNCHANGED nonCfgVars

\* run_scheduler: update_interval is read once, then time.sleep(update_interval)
\* before every refresh.
SchedulerSleeps ==
    /\ cfg.pc \in {"loaded", "sleeping"}
    /\ cfg' = [cfg EXCEPT !.pc = "sleeping", !.slept = cfg.interval]
    /\ UNCHANGED nonCfgVars

ConfigNext == LoadConfig \/ SchedulerSleeps

ConfigSpec == QuietInit /\ [][ConfigNext]_vars

\* ------------------------------------------------------------ rate limit
\* Several group requests of the same users, pending at the same time.

\* A faulty variant: the application handles updates concurrently
ConcurrentUpdatesOn == TRUE

\* bot.py, line 44: the application is built without concurrent_updates, so
\* the handler of an update is awaited before the next update is taken.
ConcurrentUpdates == FALSE

InHandler(r) == flight[r].pc \in {"process", "awaiting"}

nonFlightVars == <<upstream, geoipUrlDefined, mgrVars, service, clsVars,
                   allowedGroups, botUsername, req, chk, site, geo, ext, cfg,
                   doh, mem>>

\* A mention with a domain that is not a .cn one arrives from a user: the
\* update waits in the application's queue.
UpdateArrives(r) ==
    /\ flight[r].pc = "idle"
    /\ \E u \in Users :
         flight' = [flight EXCEPT ![r] = [pc |-> "queued", outcome |-> "none",
                                          user |-> u]]
    /\ UNCHANGED <<nonFlightVars, userAdds>>

\* The application takes the update and calls handle_group_message, which
\* reaches _process_domain_request.
TakeUpdate(r) ==
    /\ flight[r].pc = "queued"
    /\ ConcurrentUpdates \/ \A q \in Requests : ~InHandler(q)
    /\ flight' = [flight EXCEPT ![r].pc = "process"]
    /\ UNCHANGED <<nonFlightVars, userAdds>>

\* _process_domain_request, lines 211-222: the limit is checked, then
\* check_and_add_domain_auto is awaited.
CheckLimit(r) ==
    /\ flight[r].pc = "process"
    /\ flight' = IF CheckUserAddLimit(flight[r].user)
                 THEN [flight EXCEPT ![r].pc = "awaiting"]
                 ELSE [flight EXCEPT ![r].pc = "done", ![r].outcome = "limited"]
    /\ UNCHANGED <<nonFlightVars, userAdds>>

\* _process_domain_request, lines 225-256: the awaited call has returned (or
\* raised); an add is recorded.
AddReturns(r) ==
    /\ flight[r].pc = "awaiting"
    /\ \E action \in {"added", "exists", "rejected", "error", "failed"} :
         /\ flight' = [flight EXCEPT ![r].pc = "done", ![r].outcome = action]
         /\ userAdds' = IF RecordsAdd(action)
                        THEN [userAdds EXCEPT ![flight[r].user] = @ + 1]
                        ELSE userAdds
    /\ UNCHANGED nonFlightVars

\* The handler has returned.
HandlerReturns(r) ==
    /\ flight[r].pc = "done"
    /\ flight' = [flight EXCEPT ![r] = NoFlight]
    /\ UNCHANGED <<nonFlightVars, userAdds>>

\* The hour of a user's recorded adds is over.
LimitHourPasses(u) ==
    /\ userAdds[u] > 0
    /\ userAdds' = [userAdds EXCEPT ![u] = 0]
    /\ UNCHANGED <<nonFlightVars, flight>>

LimitNext ==
    \/ \E r \in Requests : UpdateArrives(r)
    \/ \E r \in Requests : TakeUpdate(r)
    \/ \E r \in Requests : CheckLimit(r)
    \/ \E r \in Requests : AddReturns(r)
    \/ \E r \in Requests : HandlerReturns(r)
    \/ \E u \in Users : LimitHourPasses(u)

LimitSpec == QuietInit /\ [][LimitNext]_vars

\* ------------------------------------------------------------ _data_lock
\* The swap of _load_geosite_data and the reads of is_domain_in_geosite,
\* statement by statement.  A collection is the number of the load that
\* built it (0: the empty ones of __init__); every load builds new
\* collections and none is changed after it is assigned.

\* A faulty variant: the references read or assigned without the lock
DataLockIgnored(holder) == TRUE

\* with self._data_lock: entered when no other thread holds the lock
DataLockFree(holder) == holder = NoHolder

Loader == [kind |-> "loader", c |-> 0]
LookupHolder(c) == [kind |-> "lookup", c |-> c]

nonMemVars == <<upstream, geoipUrlDefined, mgrVars, service, clsVars, grpVars,
                chk, site, geo, ext, cfg, doh, flight>>

\* _load_geosite_data, lines 143-181: the file is parsed into local
\* collections; an exception leaves the references alone.
LoaderParses ==
    /\ mem.loader.pc = "idle"
    /\ mem.loader.gen < MaxLoads
    /\ \E parseOk \in BOOLEAN :
         mem' = [mem EXCEPT !.loader.gen = @ + 1,
                            !.loader.pc = IF parseOk THEN "parsed" ELSE "idle"]
    /\ UNCHANGED nonMemVars

\* line 183
LoaderLocks ==
    /\ mem.loader.pc = "parsed"
    /\ DataLockFree(mem.lock)
    /\ mem' = [mem EXCEPT !.lock = Loader, !.loader.pc = "set_domains"]
    /\ UNCHANGED nonMemVars

\* lines 184-187, one assignment at a time; the lock is released after the
\* last one.
LoaderAssigns ==
    /\ mem.loader.pc \in {"set_domains", "set_keywords", "set_regex", "set_includes"}
    /\ mem' = IF mem.loader.pc = "set_domains"
              THEN [mem EXCEPT !.domains = mem.loader.gen,
                               !.loader.pc = "set_keywords"]
              ELSE IF mem.loader.pc = "set_keywords"
              THEN [mem EXCEPT !.keywords = mem.loader.gen,
                               !.loader.pc = "set_regex"]
              ELSE IF mem.loader.pc = "set_regex"
              THEN [mem EXCEPT !.regex = mem.loader.gen,
                               !.loader.pc = "set_includes"]
              ELSE [mem EXCEPT !.includes = mem.loader.gen,
                               !.loader.pc = "idle", !.lock = NoHolder]
    /\ UNCHANGED nonMemVars

\* is_domain_in_geosite, line 210
LookupLocks(c) ==
    /\ mem.lookup[c].pc \in {"idle", "match"}
    /\ DataLockFree(mem.lock)
    /\ mem' = [mem EXCEPT !.lock = LookupHolder(c), !.lookup[c].pc = "get_domains"]
    /\ UNCHANGED nonMemVars

\* lines 211-213, one read at a time; the lock is released after the last
\* one and the matching (lines 215-236) uses what was read.
LookupReads(c) ==
    /\ mem.lookup[c].pc \in {"get_domains", "get_keywords", "get_regex"}
    /\ mem' = IF mem.lookup[c].pc = "get_domains"
              THEN [mem EXCEPT !.lookup[c].domains = mem.domains,
                               !.lookup[c].pc = "get_keywords"]
              ELSE IF mem.lookup[c].pc = "get_keywords"
              THEN [mem EXCEPT !.lookup[c].keywords = mem.keywords,
                               !.lookup[c].pc = "get_regex"]
              ELSE [mem EXCEPT !.lookup[c].regex = mem.regex,
                               !.lookup[c].pc = "match", !.lock = NoHolder]
    /\ UNCHANGED nonMemVars

SwapNext ==
    \/ LoaderParses
    \/ LoaderLocks
    \/ LoaderAssigns
    \/ \E c \in Classifiers : LookupLocks(c) \/ LookupReads(c)

SwapSpec == QuietInit /\ [][SwapNext]_vars

\* ------------------------------------------------------------ DoH pools
\* One resolution of a pool (A or NS): the endpoints are asked in parallel.
\* An endpoint is "none" (not in the pool), "inflight", its response
\* ("answer": valid, rcode 0, at least one record; "norecords", "rcode",
\* "failed", "timeout"), "cancelled", or a response that came after the
\* resolution had returned ("late_answer", "late_other").

\* The default pools have three endpoints each (config.py, lines 67-71, 78-82)
NumDohServers == 3
Endpoints == 1..NumDohServers
DohResponses == {"answer", "norecords", "rcode", "failed", "timeout"}

\* Config._parse_doh_servers: the configured https endpoints, or the
\* defaults when none is configured
ParseDohServers(configured) == IF configured = {} THEN Endpoints ELSE configured

\* The first response that is valid, has rcode 0 and at least one record wins
Wins(resp) == resp = "answer"

EmptyAnswer == << >>
\* The records an endpoint answers with
AnswerOf(e) == <<e>>

\* A faulty variant: the records of a late response replace the result
LateResultOverwrites(result, e, resp) ==
    IF Wins(resp) THEN AnswerOf(e) ELSE result

\* Late responses are discarded
LateResult(result, e, resp) == result

nonDohVars == <<upstream, geoipUrlDefined, mgrVars, service, clsVars, grpVars,
                chk, site, geo, ext, cfg, flight, mem>>

\* resolve_A / resolve_NS: a request to every endpoint of the pool
ResolveStart ==
    /\ doh.pc \in {"idle", "returned"}
    /\ \E kind \in {"A", "NS"}, configured \in SUBSET Endpoints :
         LET pool == ParseDohServers(configured)
         IN doh' = [pc |-> "racing", kind |-> kind, pool |-> pool,
                    result |-> EmptyAnswer,
                    ep |-> [e \in Endpoints |->
                              IF e \in pool THEN "inflight" ELSE "none"]]
    /\ UNCHANGED nonDohVars

\* An endpoint's response (or its failure, or its timeout) during the race:
\* a winning one ends the race and the other requests are cancelled; the
\* last losing one ends it with the empty result.
EndpointResponds(e) ==
    /\ doh.pc = "racing"
    /\ doh.ep[e] = "inflight"
    /\ \E resp \in DohResponses :
         LET ep1 == [doh.ep EXCEPT ![e] = resp]
         IN IF Wins(resp)
            THEN doh' = [doh EXCEPT !.pc = "returned", !.result = AnswerOf(e),
                           !.ep = [x \in Endpoints |->
                                     IF ep1[x] = "inflight" THEN "cancelled"
                                     ELSE ep1[x]]]
            ELSE doh' = [doh EXCEPT !.ep = ep1,
                           !.pc = IF \E x \in Endpoints : ep1[x] = "inflight"
                                  THEN "racing" ELSE "returned"]
    /\ UNCHANGED nonDohVars

\* The pool's overall deadline: the requests still in flight are cancelled
\* and the resolution returns empty.
PoolTimeout ==
    /\ doh.pc = "racing"
    /\ doh' = [doh EXCEPT !.pc = "returned",
                 !.ep = [x \in Endpoints |->
                           IF doh.ep[x] = "inflight" THEN "cancelled"
                           ELSE doh.ep[x]]]
    /\ UNCHANGED nonDohVars

\* Cancellation is best-effort: the response of a cancelled request arrives
\* after the resolution has returned.
LateResponse(e) ==
    /\ doh.pc = "returned"
    /\ doh.ep[e] = "cancelled"
    /\ \E resp \in DohResponses :
         doh' = [doh EXCEPT !.result = LateResult(doh.result, e, resp),
                   !.ep[e] = IF Wins(resp) THEN "late_answer" ELSE "late_other"]
    /\ UNCHANGED nonDohVars

DohNext ==
    \/ ResolveStart
    \/ PoolTimeout
    \/ \E e \in Endpoints : EndpointResponds(e) \/ LateResponse(e)

DohSpec == QuietInit /\ [][DohNext]_vars

\* ------------------------------------------------------------ claims
InRefresh(t) == pc[t] \in {"dl_geoip", "wr_geoip", "dl_geosite", "wr_geosite",
                           "load", "finish"}

\* A step during which trigger t, asleep, finds the lock taken: it stays
\* asleep, and if it is t's own call (its skip is noted) nothing of the
\* manager changes.
TriggerSkips(t) ==
    (pc[t] = "sleep" /\ updateLock # NoThread) =>
        /\ pc'[t] = "sleep"
        /\ lastTrigger'[t] # lastTrigger[t] =>
             UNCHANGED <<geoipFile, geositeFile, catalog, updateLock, run, pc>>

\* C1: at most one refresh runs at any time, and a trigger that finds the
\* update lock taken returns at once: it does not wait, and it downloads,
\* parses and swaps nothing.
C1_AtMostOneRefresh ==
    /\ [](\A t, u \in Triggers : (InRefresh(t) /\ InRefresh(u)) => t = u)
    /\ [][\A t \in Triggers : TriggerSkips(t)]_vars

C1_Witness ==
    \E t, u \in Triggers :
        /\ t # u
        /\ pc[t] = "sleep" /\ lastTrigger[t] = "skipped"
        /\ updateLock = u /\ pc[u] \in {"wr_geoip", "wr_geosite", "load"}

C4_FilesReplacedAtomically ==
    [][/\ geoipFile' # geoipFile => IsComplete(geoipFile')
       /\ geositeFile' # geositeFile => IsComplete(geositeFile')]_vars

\* C5: when a refresh has failed at any step (a download, or parsing the
\* GeoSite file), the GeoSite catalog in memory is the one that was there
\* when that refresh began.
C5_FailedRefreshKeepsCatalog ==
    \A t \in Triggers :
        (pc[t] = "finish" /\ Failed(run[t])) => catalog = run[t].atBegin

C5_Witness ==
    \E t \in Triggers :
        /\ pc[t] = "finish" /\ run[t].load = "failed"
        /\ catalog # EmptyCatalog
        /\ geositeFile # catalog.domains

\* C6: a refresh whose GeoIP download failed has still downloaded and
\* reloaded GeoSite by the time it ends.
C6_GeositeRefreshedDespiteGeoipFailure ==
    \A t \in Triggers :
        (pc[t] = "finish" /\ run[t].geoip \in {"failed", "aborted"}) =>
            (run[t].geosite # "none" /\ run[t].load # "none")

\* C7: a trigger that is asleep never holds the update lock, whatever way
\* its last refresh ended, and every refresh that ends in failure is
\* followed by a new refresh attempt.
C7_FailedRefreshRetried ==
    /\ [](\A t \in Triggers : pc[t] = "sleep" => updateLock # t)
    /\ \A t \in Triggers :
         (pc[t] = "finish" /\ Failed(run[t])) ~> (\E u \in Triggers : pc[u] = "dl_geoip")

C7_Witness ==
    \E t \in Triggers : pc[t] = "dl_geoip" /\ updateLock = t /\ lastEnded = "failed"

\* C8: a download fails only when every candidate mirror has failed: if
\* some candidate of GEOIP_URLS answers 200, the GeoIP download gets its
\* file.
C8_DownloadSucceedsIfAnyMirrorOk ==
    \A w \in Workers : run[w].mirrorOk => run[w].geoip # "failed"

\* C9 as stated: no catalog load failure at startup is survived, so a
\* GeoIP service whose load failed is never in use.
C9_AnyStartupLoadFailureFatal ==
    ~(service.built /\ service.loadError)

\* A step that starts a refresher thread is taken by a startup whose needed
\* downloads and GeoSite load all succeeded.
StartedAfterLoad ==
    (\E t \in Triggers : pc[t] = "unstarted" /\ pc'[t] # "unstarted") =>
        /\ pc[Main] = "start_sched" /\ pc'[Main] = "ready"
        /\ need.geoip => run[Main].geoip = "ok"
        /\ need.geosite => run[Main].geosite = "ok"
        /\ run[Main].load = "ok"

\* C9 as amended: a failed initial download or a GeoSite file that cannot be
\* parsed is fatal (initialize raises), and the refresher threads are
\* started only after the needed downloads and the GeoSite load succeeded;
\* a failure to open the MMDB is logged by the GeoIP service, which then
\* runs without reader and without CN IPv4 index.
C9_StartupDownloadOrGeositeFailureFatal ==
    /\ [](Failed(run[Main]) => pc[Main] = "init_failed")
    /\ []((\E t \in Triggers : pc[t] # "unstarted") => pc[Main] = "ready")
    /\ [][StartedAfterLoad]_vars
    /\ []((service.built /\ service.loadError) =>
            (~Exists(service.reader) /\ service.cn = 0))

C9_Witness ==
    /\ pc[Main] = "init_failed"
    /\ Failed(run[Main])
    /\ \A t \in Triggers : pc[t] = "unstarted"


\* The first valid domain of the mentioning message itself
MessageDomain(text) == ExtractFirstValidDomain(RemoveBotMention(text, BotName))

\* C10: a group request whose domain has top-level label cn ends with the
\* ".cn default direct" answer, never with "no valid domain" and never with
\* an add, whatever the replied-to message holds, and neither the rate limit
\* nor check_and_add_domain_auto is consulted for it.
C10_CnAnsweredDefaultDirect ==
    (/\ req.pc \in {"process", "checking", "done"}
     /\ req.outcome \notin {"ignored", "failed"}
     /\ IsCnDomain(MessageDomain(req.text))) =>
        /\ req.pc = "done"
        /\ req.outcome = "cn_default_direct"
        /\ ~req.limitChecked /\ ~req.checkCalled /\ ~req.recorded


\* The query as is_domain_in_geosite takes it: lower case, blanks stripped
QueryDomain(q) == Strip(LowerStr(q))

\* q itself or the part of q after one of its dots
LabelSuffixes(q) ==
    { SubSeq(q, k + 1, Len(q)) : k \in { j \in 0..(Len(q) - 1) : j = 0 \/ q[j] = "." } }

\* C13: for every loaded catalog and every non-empty query, the lookup
\* answers true exactly when the query or one of its proper label suffixes
\* is an exact entry, or a keyword occurs in it, or a pattern is found in it;
\* an entry that lies strictly below the query does not make it match.
C13_GeositeMatchesSuffixKeywordRegex ==
    (site.pc = "done" /\ site.query # NoStr /\ QueryDomain(site.query) # << >>) =>
        LET q == QueryDomain(site.query)
        IN site.result <=>
             \/ LabelSuffixes(q) \cap site.cat.domains # {}
             \/ \E j \in 1..Len(site.cat.keywords) : IsSubstring(site.cat.keywords[j], q)
             \/ \E j \in 1..Len(site.cat.regex) : RegexSearch(site.cat.regex[j], q)

C13_Witness ==
    /\ site.pc = "done" /\ site.query # NoStr
    /\ ~site.result
    /\ site.cat.keywords = << >> /\ site.cat.regex = << >>
    /\ \E e \in site.cat.domains :
         QueryDomain(site.query) \in LabelSuffixes(e) \ {e}


\* A linear scan over the networks of the file as written
NaiveCn(lines, addr) ==
    \E i \in 1..Len(lines) :
        /\ lines[i].kind = "v4"
        /\ addr \div BlockSize(lines[i]) = lines[i].addr \div BlockSize(lines[i])

\* C14: for every CN IPv4 file (overlapping, nested, adjacent, duplicate
\* networks included) and every IPv4 address, the lookup over the merged
\* ranges answers CN exactly when some network of the file holds the address.
C14_FallbackEqualsLinearScan ==
    (geo.pc = "done" /\ ~geo.reader /\ geo.input.kind = "quad") =>
        (geo.result = "CN" <=> NaiveCn(geo.lines, geo.input.addr))

C14_Witness ==
    /\ geo.pc = "done" /\ ~geo.reader /\ geo.input.kind = "quad"
    /\ geo.result = "CN"
    /\ Len(geo.ranges) = 1
    /\ \E i, j \in 1..Len(geo.lines) :
         /\ i < j /\ geo.lines[i].kind = "v4" /\ geo.lines[j].kind = "v4"
         /\ NetworkRange(geo.lines[j]).end < NetworkRange(geo.lines[i]).end
         /\ NetworkRange(geo.lines[j]).end < geo.input.addr


\* The database answered with a record that yields a code
RecordYieldsCode ==
    /\ geo.reader
    /\ geo.answer.kind = "record"
    /\ \/ geo.answer.country # NoCode
       \/ geo.answer.registered # NoCode
       \/ geo.answer.represented # NoCode

\* C15: for an input that passes the format check, a record of the database
\* that yields a code decides: country, else registered_country, else
\* represented_country, whatever the CN ranges hold; the CN ranges answer
\* only without a reader, for an absent address, a failed query or a record
\* without a code, and then the result is CN or nothing.
C15_MmdbPrecedesCnIndex ==
    (geo.pc = "done" /\ ~InetAtonRaises(geo.input)) =>
        /\ (RecordYieldsCode /\ geo.answer.country # NoCode) =>
               geo.result = geo.answer.country
        /\ (RecordYieldsCode /\ geo.answer.country = NoCode
                /\ geo.answer.registered # NoCode) =>
               geo.result = geo.answer.registered
        /\ (RecordYieldsCode /\ geo.answer.country = NoCode
                /\ geo.answer.registered = NoCode) =>
               geo.result = geo.answer.represented
        /\ ~RecordYieldsCode =>
               /\ geo.result \in {"CN", NoCode}
               /\ geo.result = "CN" <=>
                      (geo.input.kind = "quad" /\ NaiveCn(geo.lines, geo.input.addr))

C15_Witness ==
    /\ geo.pc = "done" /\ geo.reader
    /\ geo.input.kind = "quad" /\ NaiveCn(geo.lines, geo.input.addr)
    /\ geo.answer.kind = "record" /\ geo.answer.country = NoCode
    /\ geo.answer.registered = "US"
    /\ geo.result = "US"

\* C16: get_country_code always returns, a code or nothing; it returns
\* nothing for every input the format check rejects (IPv6 included), for
\* every input when neither reader nor CN ranges are loaded, and whenever
\* only the CN ranges are left to answer for something that is no dotted
\* quad; is_domain_in_geosite always returns a boolean, false when the
\* lookup fails inside.
C16_LookupsDegrade ==
    /\ geo.pc = "done" =>
         /\ geo.result \in Codes
         /\ InetAtonRaises(geo.input) => geo.result = NoCode
         /\ (~geo.reader /\ geo.ranges = << >>) => geo.result = NoCode
         /\ (geo.input.kind # "quad" /\ ~RecordYieldsCode) => geo.result = NoCode
         /\ geo.result = NoCode => ~IsChinaIp(geo.result)
    /\ site.pc = "done" =>
         /\ site.result \in BOOLEAN
         /\ site.query = NoStr => ~site.result

C16_Witness ==
    /\ geo.pc = "done" /\ geo.reader /\ geo.ranges # << >>
    /\ geo.input.kind = "v6"
    /\ geo.answer.kind = "record" /\ geo.answer.country = "CN"
    /\ geo.result = NoCode
    /\ site.pc = "done" /\ site.query = NoStr /\ ~site.result


\* The suffixes of the table that a domain ends with, one label to spare
MatchingSuffixes(d) ==
    { s \in MultiLabelSuffixes : Len(d) > Len(s) /\ LastLabels(d, Len(s)) = s }

\* C18: the registered domain is the longest matching multi-label suffix
\* plus one label, the last two labels when no suffix matches; it is a
\* label-suffix of the input, and extracting it again changes nothing.
C18_RegisteredDomainSuffixIdempotent ==
    ext.pc = "second" =>
        /\ \E n \in 1..Len(ext.domain) : ext.result = LastLabels(ext.domain, n)
        /\ ext.again = ext.result
        /\ IF MatchingSuffixes(ext.domain) # {}
           THEN \E s \in MatchingSuffixes(ext.domain) :
                    /\ \A t \in MatchingSuffixes(ext.domain) : Len(t) <= Len(s)
                    /\ ext.result = LastLabels(ext.domain, Len(s) + 1)
           ELSE ext.result = LastLabels(ext.domain, 2)

C18_Witness ==
    /\ ext.pc = "second"
    /\ Len(ext.domain) = 4
    /\ LastLabels(ext.domain, 2) = <<"com", "cn">>
    /\ Len(ext.result) = 3
    /\ ext.again = ext.result

\* The tokens of a text that hold a valid domain
HoldsValidDomain(token) ==
    NormalizeDomain(token) # None /\ IsValidDomain(NormalizeDomain(token))

\* The first valid domain of a text: of its URLs when one of them holds a
\* valid domain, of all its tokens otherwise
FirstValidDomain(text) ==
    LET urls == { i \in 1..Len(text) : IsUrl(text[i]) /\ HoldsValidDomain(text[i]) }
        all == { i \in 1..Len(text) : HoldsValidDomain(text[i]) }
        least(S) == CHOOSE i \in S : \A j \in S : i <= j
    IN IF urls # {} THEN NormalizeDomain(text[least(urls)])
       ELSE IF all # {} THEN NormalizeDomain(text[least(all)])
       ELSE None

\* C19: extract_domain_for_rules gives the registered domain of the first
\* valid domain of the text, nothing when the text holds no valid domain or
\* that domain has top-level label cn; its result never ends in cn.
C19_ForRulesRegisteredNeverCn ==
    ext.pc = "rules" =>
        LET first == FirstValidDomain(ext.text)
        IN /\ first = None => ext.result = None
           /\ (first # None /\ first[Len(first)] = "cn") => ext.result = None
           /\ (first # None /\ first[Len(first)] # "cn") =>
                  ext.result = ExtractSecondLevelDomain(first)
           /\ ext.result # None => ext.result[Len(ext.result)] # "cn"

C19_Witness ==
    /\ ext.pc = "rules"
    /\ Len(ext.text) = 2
    /\ ~IsUrl(ext.text[1]) /\ HoldsValidDomain(ext.text[1])
    /\ IsUrl(ext.text[2])
    /\ ext.result # None
    /\ ext.result = ExtractSecondLevelDomain(NormalizeDomain(ext.text[2]))
    /\ ext.result # ExtractSecondLevelDomain(NormalizeDomain(ext.text[1]))


\* The registered domain of a normalized domain, by the suffix table
RegisteredDomain(d) ==
    IF MatchingSuffixes(d) # {} THEN LastLabels(d, 3) ELSE LastLabels(d, 2)

\* C11: a verdict add names the registered domain of the input as its
\* target, not the sub-domain that was asked about and never a domain
\* ending in cn; get_target_domain_to_add gives that registered domain
\* whenever should_add_directly holds.
C11_AddTargetIsRegisteredDomain ==
    (chk.pc = "done" /\ (chk.decision = "add" \/ ShouldAddDirectly(chk))) =>
        /\ chk.decision = "add" /\ ShouldAddDirectly(chk)
        /\ chk.target = RegisteredDomain(NormalizeDomain(chk.input))
        /\ Len(chk.domain) > Len(chk.target) => chk.target # chk.domain
        /\ chk.target[Len(chk.target)] # "cn"

C11_Witness ==
    /\ chk.pc = "done" /\ chk.decision = "add"
    /\ Len(chk.input) = 5 /\ Len(chk.target) = 3
    /\ ~chk.domain_china_status /\ chk.second_level_china_status

MentionsBot(text) ==
    \E i \in 1..Len(text) : Len(text[i]) = 1 /\ Lower(text[i][1]) = "@rulebot"

\* C20: the group entry replies, or goes on to the rate limit and
\* check_and_add_domain_auto, only for a message of a group or supergroup
\* whose chat id is in ALLOWED_GROUP_IDS and that mentions the bot; every
\* other message is ignored without a reply, and with an empty
\* ALLOWED_GROUP_IDS no message is handled at all.
C20_OnlyWhitelistedMentionsActedOn ==
    /\ (req.pc # "idle" /\ req.outcome # "ignored") =>
          /\ req.chatType \in {"group", "supergroup"}
          /\ req.chatId \in allowedGroups
          /\ MentionsBot(req.text)
    /\ allowedGroups = {} => req.pc = "idle"


\* C26: after _load_cn_ipv4 every range of the index has start <= end, each
\* range starts beyond the end of the one before plus one (ascending,
\* disjoint, not adjacent), the ranges hold exactly the addresses the IPv4
\* networks of the file hold, and the list of starts is the list of the
\* ranges' starts, index by index.
C26_CnIndexSortedMergedExact ==
    geo.pc \in {"loaded", "done"} =>
        /\ \A i \in 1..Len(geo.ranges) : geo.ranges[i].start <= geo.ranges[i].end
        /\ \A i \in 1..(Len(geo.ranges) - 1) :
               geo.ranges[i + 1].start > geo.ranges[i].end + 1
        /\ \A addr \in Addrs :
               NaiveCn(geo.lines, addr) <=>
                   \E i \in 1..Len(geo.ranges) :
                       geo.ranges[i].start <= addr /\ addr <= geo.ranges[i].end
        /\ Len(geo.starts) = Len(geo.ranges)
        /\ \A i \in 1..Len(geo.ranges) : geo.starts[i] = geo.ranges[i].start

C26_Witness ==
    /\ geo.pc = "loaded"
    /\ Len(geo.lines) = 2 /\ Len(geo.ranges) = 1
    /\ geo.lines[1].kind = "v4" /\ geo.lines[2].kind = "v4"
    /\ NetworkRange(geo.lines[2]).end + 1 = NetworkRange(geo.lines[1]).start


\* The lines of a file by their prefix
IsDomainLine(line) == line.kind \in {"full:", "domain:", ""}
IsKeywordLine(line) == line.kind = "keyword:"
IsRegexLine(line) == line.kind = "regexp:" /\ Compiles(line.body)
IsIncludeLine(line) == line.kind \in {"include:", "geosite:"}

\* Something follows the prefix
HasBody(line) ==
    CASE IsKeywordLine(line) -> Strip(line.body) # << >>
      [] line.kind = "regexp:" -> line.body # EmptyPattern
      [] OTHER -> line.body # << >>

IsDomainEntry(line) == IsDomainLine(line) /\ HasBody(line)
IsKeywordEntry(line) == IsKeywordLine(line) /\ HasBody(line)
IsRegexEntry(line) == IsRegexLine(line) /\ HasBody(line)
IsIncludeEntry(line) == IsIncludeLine(line) /\ HasBody(line)

\* What a line stores
KeywordOf(line) == LowerStr(Strip(line.body))
BodyOf(line) == line.body
MapSeq(seq, F(_)) == [i \in 1..Len(seq) |-> F(seq[i])]

\* C27 as stated: every line that is neither blank nor a comment is in
\* exactly the bucket of its prefix, a regexp: line that does not compile
\* left out; domains and keywords are lower case, includes are only
\* recorded, and the lines around a regexp: line that does not compile are
\* loaded.
C27_EveryLineInOneBucket ==
    site.pc = "loaded" =>
        /\ site.cat.domains =
               { LowerStr(site.lines[i].body) :
                   i \in { k \in 1..Len(site.lines) : IsDomainLine(site.lines[k]) } }
        /\ site.cat.keywords =
               MapSeq(SelectSeq(site.lines, IsKeywordLine), KeywordOf)
        /\ site.cat.regex = MapSeq(SelectSeq(site.lines, IsRegexLine), BodyOf)
        /\ site.cat.includes =
               MapSeq(SelectSeq(site.lines, IsIncludeLine), BodyOf)

\* C27, amended: every line that is neither blank nor a comment is in at
\* most one bucket, the one of its prefix, and in exactly that one when
\* something follows the prefix and, for regexp:, compiles; a line with
\* nothing after its prefix stores nothing.  Domains and keywords are lower
\* case, includes are only recorded, and the lines around a regexp: line
\* that does not compile are loaded.
C27_EveryEntryInOneBucket ==
    site.pc = "loaded" =>
        /\ site.cat.domains =
               { LowerStr(site.lines[i].body) :
                   i \in { k \in 1..Len(site.lines) : IsDomainEntry(site.lines[k]) } }
        /\ site.cat.keywords =
               MapSeq(SelectSeq(site.lines, IsKeywordEntry), KeywordOf)
        /\ site.cat.regex = MapSeq(SelectSeq(site.lines, IsRegexEntry), BodyOf)
        /\ site.cat.includes =
               MapSeq(SelectSeq(site.lines, IsIncludeEntry), BodyOf)
        /\ \A d \in site.cat.domains : d = LowerStr(d)
        /\ \A i \in 1..Len(site.cat.keywords) :
               site.cat.keywords[i] = LowerStr(site.cat.keywords[i])

C27_Witness ==
    /\ site.pc = "loaded"
    /\ Len(site.lines) = 3
    /\ site.lines[2].kind = "regexp:" /\ site.lines[2].body = BadPattern
    /\ site.cat.domains = { <<"b">> }
    /\ site.cat.keywords = << <<"a", "a">> >>
    /\ site.cat.regex = << >>


\* The variable holds a number above zero: blanks around it, a plus sign at
\* most, digits that are not all zero
UnsignedPart(value) ==
    LET text == Strip(value)
    IN IF text # << >> /\ Head(text) = "+" THEN Tail(text) ELSE text

IsPositiveNumeral(value) ==
    /\ IsDigits(UnsignedPart(value))
    /\ \E i \in 1..Len(UnsignedPart(value)) : UnsignedPart(value)[i] # "0"

\* C22: the refresh interval is an integer above zero: the default 21600
\* whenever DATA_UPDATE_INTERVAL is unset, is no number, is zero or is
\* negative, the number it holds otherwise; the refresher never sleeps for
\* a period that is not above zero.
C22_UpdateIntervalPositive ==
    cfg.pc \in {"loaded", "sleeping"} =>
        /\ cfg.interval \in Nat /\ cfg.interval > 0
        /\ ~IsPositiveNumeral(cfg.value) => cfg.interval = DefaultInterval
        /\ IsPositiveNumeral(cfg.value) =>
               cfg.interval = DigitsValue(UnsignedPart(cfg.value))
        /\ cfg.pc = "sleeping" => cfg.slept > 0

C22_Witness ==
    /\ cfg.pc = "sleeping"
    /\ cfg.value = <<"-", "5">>
    /\ cfg.slept = DefaultInterval


\* What a text yields for the rules: the registered domain of its first
\* valid domain, nothing for a text without one and for a cn domain
YieldedDomain(text) ==
    LET first == FirstValidDomain(text)
    IN IF first = None \/ first[Len(first)] = "cn" THEN None
       ELSE RegisteredDomain(first)

\* The mentioning message without the tokens that name the bot
WithoutMention(text) ==
    LET keep(token) == ~(Len(token) = 1 /\ Lower(token[1]) = "@rulebot")
    IN SelectSeq(text, keep)

\* The request has passed the chat type, the whitelist and the mention test
Accepted == req.pc # "idle" /\ req.outcome \notin {"ignored", "failed"}

\* C28: an accepted group request is about the domain its own message
\* yields once the mention is removed; the replied-to message is asked only
\* when the own message yields none; when neither yields one the request
\* ends with the "no valid domain" reply, with no limit check, no check and
\* no add.
C28_OwnMessageBeforeReply ==
    Accepted =>
        LET own == YieldedDomain(WithoutMention(req.text))
            replied == IF req.hasReply THEN YieldedDomain(req.replyText) ELSE None
        IN /\ own # None => req.domain = own /\ req.outcome # "no_valid_domain"
           /\ (own = None /\ replied # None) =>
                  req.domain = replied /\ req.outcome # "no_valid_domain"
           /\ (own = None /\ replied = None) =>
                  /\ req.pc = "done" /\ req.outcome = "no_valid_domain"
                  /\ ~req.limitChecked /\ ~req.checkCalled /\ ~req.recorded

C28_Witness ==
    /\ Accepted /\ req.pc = "checking"
    /\ req.hasReply
    /\ YieldedDomain(WithoutMention(req.text)) # None
    /\ YieldedDomain(req.replyText) # None
    /\ YieldedDomain(req.replyText) # req.domain

\* An add is recorded in this step: for the request that is being checked,
\* its user, once, and check_and_add_domain_auto has answered added
AddRecordedOnAdded ==
    (\E u \in Users : userAdds'[u] > userAdds[u]) =>
        /\ req.pc = "checking" /\ req.checkCalled
        /\ req'.pc = "done" /\ req'.outcome = "added" /\ req'.recorded
        /\ userAdds' = [userAdds EXCEPT ![req.user] = @ + 1]

\* A request ends in this step: an answer added has its add recorded now
EndedRecordsOnlyAdded ==
    (req.pc = "checking" /\ req'.pc = "done") =>
        /\ req'.outcome = "added" =>
               userAdds' = [userAdds EXCEPT ![req.user] = @ + 1]
        /\ req'.outcome # "added" => userAdds' = userAdds /\ ~req'.recorded

\* C24: a request the limit denies never reaches check_and_add_domain_auto
\* and records no add; a request that is let through records exactly one
\* add when the answer is added and none when it is exists, rejected or
\* error.
C24_RecordOnlyOnAdded ==
    /\ [](req.outcome = "limited" =>
              req.limitChecked /\ ~req.checkCalled /\ ~req.recorded)
    /\ [](req.checkCalled => req.limitChecked)
    /\ [][AddRecordedOnAdded]_vars
    /\ [][EndedRecordsOnlyAdded]_vars

C24_Witness ==
    /\ req.pc = "done" /\ req.outcome = "limited"
    /\ userAdds[req.user] = MaxAddsPerHour


\* C23: whatever the order in which pending group requests of the same user
\* are handled, the adds recorded for a user within one hour never exceed
\* MAX_ADDS_PER_HOUR, although the limit is checked before, and the add
\* recorded after, the awaited check_and_add_domain_auto call.
C23_AddsWithinLimit ==
    \A u \in Users : userAdds[u] <= MaxAddsPerHour

\* A request is denied at the limit while another request of the same user,
\* which arrived while earlier ones were handled, still waits.
C23_Witness ==
    \E r, q \in Requests :
        /\ r # q
        /\ flight[r].pc = "done" /\ flight[r].outcome = "limited"
        /\ flight[q].pc = "queued" /\ flight[q].user = flight[r].user
        /\ userAdds[flight[r].user] = MaxAddsPerHour


\* C25: the exact-domain set, the keyword list and the regex list that one
\* is_domain_in_geosite call matches against come from the same load, also
\* when a swap runs at the same time as the lookup: what a call has read so
\* far is never of two loads.
C25_LookupOfOneLoad ==
    \A c \in Classifiers :
        /\ mem.lookup[c].pc = "get_regex" =>
             mem.lookup[c].keywords = mem.lookup[c].domains
        /\ mem.lookup[c].pc = "match" =>
             /\ mem.lookup[c].keywords = mem.lookup[c].domains
             /\ mem.lookup[c].regex = mem.lookup[c].domains

\* A lookup has read a loaded domain set and not yet the keywords while the
\* loader, with the next load parsed, waits to swap.
C25_Witness ==
    \E c \in Classifiers :
        /\ mem.lookup[c].pc = "get_keywords"
        /\ mem.lookup[c].domains > 0
        /\ mem.loader.pc = "parsed"
        /\ mem.loader.gen > mem.domains


\* What a returned resolution gives: the answer of an endpoint of the pool
\* whose response won, or nothing exactly when no endpoint's response won;
\* no request is left in flight and no second response has won.
ReturnedResult ==
    doh.pc = "returned" =>
        /\ doh.pool # {}
        /\ \A e \in Endpoints : doh.ep[e] = "none" <=> e \notin doh.pool
        /\ doh.result # EmptyAnswer =>
             \E e \in doh.pool : doh.ep[e] = "answer" /\ doh.result = AnswerOf(e)
        /\ doh.result = EmptyAnswer <=>
             \A e \in doh.pool :
                 doh.ep[e] \in {"norecords", "rcode", "failed", "timeout",
                                "cancelled", "late_answer", "late_other"}
        /\ \A e \in Endpoints : doh.ep[e] # "inflight"
        /\ \A e, x \in doh.pool :
             (doh.ep[e] = "answer" /\ doh.ep[x] = "answer") => e = x

\* A response that arrives after the resolution has returned leaves the
\* result as it is.
ResultKept ==
    (doh.pc = "returned" /\ doh'.pc = "returned") => doh'.result = doh.result

\* C21: a pool resolution asks every endpoint of its pool at once; it returns
\* the answer of an endpoint whose response was valid with rcode 0 and at
\* least one record, returns empty exactly when no endpoint gave such a
\* response (each failed, timed out, or answered with another rcode or
\* without records), leaves no request in flight once one has won, and a late
\* response of a losing endpoint never changes what was returned.
C21_PoolRace ==
    /\ [](doh.pc = "racing" =>
            \A e \in doh.pool : doh.ep[e] \in DohResponses \cup {"inflight"})
    /\ []ReturnedResult
    /\ [][ResultKept]_vars

\* One endpoint has won, and a cancelled one's response, itself a valid
\* answer, has come in late.
C21_Witness ==
    /\ doh.pc = "returned"
    /\ \E e, x \in doh.pool :
         /\ doh.ep[e] = "answer" /\ doh.result = AnswerOf(e)
         /\ doh.ep[x] = "late_answer"

====
